---- MODULE Spec2Model ----
(***************************************************************************)
(* A model of the World Bank staff-profile scraper (src/wb_scraping).      *)
(*                                                                         *)
(*   Spec        the batch driver, main.py:main, over the three sinks of   *)
(*               data_processing.py, run up to MaxRuns times in a row.     *)
(*   CodeSpec    the project-code rule of _collect_project_type_data.      *)
(*   SchemaSpec  ProfileData's constructor at the end of scrape_profile    *)
(*               and the two saves of main that follow it.                 *)
(*   BankSpec    _extract_bank_experience and _calculate_years.            *)
(*   ProfSpec    scrape_profile, one extractor after the other.            *)
(*   ProjSpec    scrape_projects and the pagination loop of                *)
(*               _collect_project_type_data.                               *)
(*   ProjLiveSpec  ProjSpec with weak fairness of its steps: the scraper   *)
(*               keeps running until it returns.                           *)
(*   RecordSpec  ProfileData.__setattr__ and ProfileData.update.           *)
(*   DocSpec     _extract_documents_and_reports.                           *)
(*   ItemSpec    the item loops of _extract_pre_bank_experience,           *)
(*               _extract_formal_education and _extract_awards.            *)
(*   LookupSpec  lookup_person_from_csv of linkedin_scraper.py.            *)
(*   ListSpec    one call of the documents or of the awards extractor.     *)
(*                                                                         *)
(* Text is a sequence of one-character strings, so that strip, split,      *)
(* join, substring containment and the CSV escaping are computed and not   *)
(* assumed.                                                                *)
(***************************************************************************)
EXTENDS Integers, Sequences, FiniteSets, TLC

(***************************************************************************)
(* Text helpers: the str methods the code calls.                           *)
(***************************************************************************)
LF == "\n"
CR == "\r"
BACKSLASH == "\\"
Whitespace == {" ", LF, CR, "\t"}

RECURSIVE LStrip(_)
\* str.lstrip(): drop leading whitespace
LStrip(s) ==
    IF s # <<>> /\ Head(s) \in Whitespace THEN LStrip(Tail(s)) ELSE s

RECURSIVE RStrip(_)
\* str.rstrip(): drop trailing whitespace
RStrip(s) ==
    IF s # <<>> /\ s[Len(s)] \in Whitespace
    THEN RStrip(SubSeq(s, 1, Len(s) - 1))
    ELSE s

\* str.strip()
Strip(s) == RStrip(LStrip(s))

RECURSIVE SplitFrom(_, _, _)
\* str.split(sep) for a one-character separator: the segments of s, the one
\* being read in cur; empty segments are kept.
SplitFrom(s, sep, cur) ==
    IF s = <<>> THEN <<cur>>
    ELSE IF Head(s) = sep
         THEN <<cur>> \o SplitFrom(Tail(s), sep, <<>>)
         ELSE SplitFrom(Tail(s), sep, Append(cur, Head(s)))

Split(s, sep) == SplitFrom(s, sep, <<>>)

\* reversed(seq)
Reversed(seq) == [i \in 1..Len(seq) |-> seq[Len(seq) + 1 - i]]

RECURSIVE Join(_, _)
\* sep.join(parts)
Join(sep, parts) ==
    IF parts = <<>> THEN <<>>
    ELSE IF Len(parts) = 1 THEN parts[1]
         ELSE parts[1] \o sep \o Join(sep, Tail(parts))

\* the operands of the test exchanged: s in sub
ContainsSwapped(sub, s) ==
    \E i \in 0..Len(sub) :
        i + Len(s) <= Len(sub) /\ SubSeq(sub, i + 1, i + Len(s)) = s

\* sub in s
Contains(sub, s) ==
    \E i \in 0..Len(s) :
        i + Len(sub) <= Len(s) /\ SubSeq(s, i + 1, i + Len(sub)) = sub

RECURSIVE ReplaceChar(_, _, _)
\* s.replace(ch, by) for a one-character ch
ReplaceChar(s, ch, by) ==
    IF s = <<>> THEN <<>>
    ELSE (IF Head(s) = ch THEN by ELSE <<Head(s)>>)
         \o ReplaceChar(Tail(s), ch, by)


(***************************************************************************)
(* Bounds of the model.                                                    *)
(***************************************************************************)
\* longest work list (rows of the staff file after the header)
MaxNames == 2
\* how many times the batch is run in a row
MaxRuns == 2

(***************************************************************************)
(* The texts of the model.                                                 *)
(***************************************************************************)
\* a character outside ASCII, and the two characters its UTF-8 bytes read
\* back as under a cp1252 locale
EACUTE == "e-acute"
MOJIBAKE == <<"A-tilde", "copyright">>

Header == <<"N", "a", "m", "e">>
CellSmithJane == <<"S", "m", "i", "t", "h", ",", "J", "a", "n", "e">>
CellSmithSpJane == <<"S", "m", "i", "t", "h", ",", " ", "J", "a", "n", "e">>
CellRoyZoe == <<"R", "o", "y", ",", "Z", "o", EACUTE>>
CellLiAnn == <<"L", "i", ",", "A", LF, "n">>
\* the first cells the staff file's rows are drawn from
Cells == {CellSmithJane, CellSmithSpJane, CellRoyZoe, CellLiAnn}

JaneSmith == <<"J", "a", "n", "e", " ", "S", "m", "i", "t", "h">>
SpJaneSmith == <<" ">> \o JaneSmith
JaneASmith ==
    <<"J", "a", "n", "e", " ", "A", ".", " ", "S", "m", "i", "t", "h">>
JohnDoe == <<"J", "o", "h", "n", " ", "D", "o", "e">>
ZoeRoy == <<"Z", "o", EACUTE, " ", "R", "o", "y">>
AnnLi == <<"A", LF, "n", " ", "L", "i">>
\* the texts the top search result may show
DisplayedNames == {JaneSmith, JaneASmith, JohnDoe, ZoeRoy, AnnLi}

\* the file-system encodings open() may default to when none is given
Encodings == {"utf-8", "cp1252"}

(***************************************************************************)
(* data_processing.py                                                      *)
(***************************************************************************)
\* read_staff_names: first cell of every row, stripped, header skipped,
\* split on "," and the parts joined in reverse order with a space
read_staff_names(rows) ==
    LET cells == Tail([i \in 1..Len(rows) |-> Strip(rows[i])])
    IN  [i \in 1..Len(cells) |->
            Join(<<" ">>, Reversed(Split(cells[i], ",")))]

\* save_profile_data's size cap and its marker
TruncLimit == 32000
TruncMarker ==
    <<".", ".", ".", " ", "(", "t", "r", "u", "n", "c", "a", "t", "e", "d",
      ")">>

\* save_profile_data, the value of one column: line breaks are replaced by
\* a backslash and a letter, and an oversized value is cut
CsvValue(v) ==
    LET value == ReplaceChar(ReplaceChar(v, LF, <<BACKSLASH, "n">>),
                             CR, <<BACKSLASH, "r">>)
    IN  IF Len(value) > TruncLimit
        THEN SubSeq(value, 1, TruncLimit) \o TruncMarker
        ELSE value

\* csv.DictWriter(quoting=QUOTE_ALL, escapechar='\\').writerow: the field
\* between its quotes; the escape character is written escaped by itself
CsvWriteField(value) == ReplaceChar(value, BACKSLASH, <<BACKSLASH, BACKSLASH>>)

\* the row save_profile_data appends for a record
CsvRow(profile_data) ==
    [name |-> CsvWriteField(CsvValue(profile_data.name)),
     page |-> profile_data.page]

\* open(file_path, mode="r") of a file written as UTF-8: what the reader
\* sees of a field under the locale's encoding enc. The reader is given no
\* escape character, so backslashes are read as they stand.
CsvReadField(field, enc) ==
    IF enc = "cp1252" THEN ReplaceChar(field, EACUTE, MOJIBAKE) ELSE field

\* read_existing_profiles: the set of the name column of the CSV sink
read_existing_profiles(file, enc) ==
    {CsvReadField(file[i].name, enc) : i \in 1..Len(file)}

(***************************************************************************)
(* State of the other specifications; each is idle in the others.          *)
(***************************************************************************)
VARIABLES
    \* ProfileData and the end of scrape_profile (SchemaSpec)
    profile_dict,       \* scrape_profile's profile_dict
    s_pc,               \* where scrape_profile and main are
    s_error,            \* the exception that left scrape_profile, if any
    s_csv,              \* records handed to save_profile_data
    s_json,             \* records handed to save_profile_data_json
    \* the project-code rule of _collect_project_type_data (CodeSpec)
    href,               \* an item's href attribute
    project_type,       \* the category being collected
    code,               \* the code derived
    c_pc,
    \* _extract_bank_experience (BankSpec)
    bank_experience,    \* the entries of the page, in DOM order
    today,              \* the day datetime.now() falls on at line 167
    late,               \* days that pass until the calls of lines 197-198
    bank_result,        \* what _extract_bank_experience returns
    e_pc,
    \* scrape_profile, extractor by extractor, and main's saves (ProfSpec)
    page,               \* how the profile page behaves
    p_pc,               \* the next step of scrape_profile and main
    p_dict,             \* scrape_profile's profile_dict
    p_calls,            \* history: the extractors called, in order
    p_error,            \* the exception that left scrape_profile, if any
    p_csv,              \* records handed to save_profile_data
    p_json,             \* records handed to save_profile_data_json
    \* scrape_projects and _collect_project_type_data (ProjSpec)
    j_pc,               \* the next step of the projects scraper
    j_cat,              \* position of the category being collected
    page_number,        \* _collect_project_type_data's page_number
    projects,           \* its four lists
    project_codes,
    project_statuses,
    project_years,
    collected,          \* the ProjectTypeData of the categories done
    project_out,        \* the dictionary scrape_projects returns
    ui_current,         \* the page number the listing's indicator shows
    ui_rows,            \* the items the listing shows
    ui_next,            \* whether an enabled next-page control is shown
    shown,              \* history: the pages each category's listing showed
    failed              \* history: the categories whose collection failed

svars == <<profile_dict, s_pc, s_error, s_csv, s_json>>
cvars == <<href, project_type, code, c_pc>>
evars == <<bank_experience, today, late, bank_result, e_pc>>
pvars == <<page, p_pc, p_dict, p_calls, p_error, p_csv, p_json>>
jvars == <<j_pc, j_cat, page_number, projects, project_codes,
           project_statuses, project_years, collected, project_out,
           ui_current, ui_rows, ui_next, shown, failed>>

SchemaIdle ==
    /\ profile_dict = <<>>
    /\ s_pc = "idle"
    /\ s_error = "none"
    /\ s_csv = <<>>
    /\ s_json = <<>>

CodeIdle ==
    /\ href = <<>>
    /\ project_type = "none"
    /\ code = <<>>
    /\ c_pc = "idle"

BankIdle ==
    /\ bank_experience = <<>>
    /\ today = 0
    /\ late = 0
    /\ bank_result = <<>>
    /\ e_pc = "idle"

ProfIdle ==
    /\ page = <<>>
    /\ p_pc = "idle"
    /\ p_dict = <<>>
    /\ p_calls = <<>>
    /\ p_error = "none"
    /\ p_csv = <<>>
    /\ p_json = <<>>

ProjIdle ==
    /\ j_pc = "idle"
    /\ j_cat = 1
    /\ page_number = 1
    /\ projects = <<>>
    /\ project_codes = <<>>
    /\ project_statuses = <<>>
    /\ project_years = <<>>
    /\ collected = <<>>
    /\ project_out = <<>>
    /\ ui_current = 1
    /\ ui_rows = <<>>
    /\ ui_next = FALSE
    /\ shown = <<>>
    /\ failed = {}

VARIABLES
    \* a ProfileData object and the assignments made to it (RecordSpec)
    record,             \* the fields of the object, none before __init__
    r_pc,
    r_error,            \* the exception the last operation raised, if any
    r_before,           \* history: the fields before the last operation
    r_op                \* history: the last operation and its keys

rvars == <<record, r_pc, r_error, r_before, r_op>>

RecordIdle ==
    /\ record = <<>>
    /\ r_pc = "idle"
    /\ r_error = "none"
    /\ r_before = <<>>
    /\ r_op = <<>>

VARIABLES
    \* _extract_documents_and_reports (DocSpec)
    d_page,             \* the documents tab of the profile page
    d_pc,
    d_result,           \* the dictionary the extractor returns
    d_error             \* the exception that left the extractor, if any

dvars == <<d_page, d_pc, d_result, d_error>>

DocIdle ==
    /\ d_page = <<>>
    /\ d_pc = "idle"
    /\ d_result = <<>>
    /\ d_error = "none"

VARIABLES
    \* the extractors of pre-bank experience, formal education and awards
    \* (ItemSpec)
    i_page,             \* the section of the profile page
    i_pc,
    i_result,           \* the value the extractor returns under its key
    i_error,            \* the exception that left the extractor, if any
    i_calls             \* the clicks and waits the extractor has made

ivars == <<i_page, i_pc, i_result, i_error, i_calls>>

ItemIdle ==
    /\ i_page = <<>>
    /\ i_pc = "idle"
    /\ i_result = <<>>
    /\ i_error = "none"
    /\ i_calls = <<>>

VARIABLES
    \* lookup_person_from_csv of linkedin_scraper.py (LookupSpec)
    csv_names,          \* the 'Name (Full)' column of the input file
    output_csv,         \* linkedin_results.csv: one row per saved profile
    before,             \* the names of linkedin_results.csv at the start
    results,
    results_dict,       \* the keys of results_dict
    row,                \* the row of the input file the loop is at
    name_variations,    \* the variations the inner loop has not tried yet
    profile,
    lookups,            \* the calls of api.linkedin.person.resolve so far,
                        \* each with the url of its answer (empty if none)
    l_pc

lvars == <<csv_names, output_csv, before, results, results_dict, row,
           name_variations, profile, lookups, l_pc>>

LookupIdle ==
    /\ csv_names = <<>>
    /\ output_csv = <<>>
    /\ before = {}
    /\ results = <<>>
    /\ results_dict = {}
    /\ row = 1
    /\ name_variations = {}
    /\ profile = <<>>
    /\ lookups = <<>>
    /\ l_pc = "idle"

\* the state of the specifications declared after ProjSpec
morevars == <<rvars, dvars, ivars, lvars>>
MoreIdle == RecordIdle /\ DocIdle /\ ItemIdle /\ LookupIdle

(***************************************************************************)
(* State of the batch driver.                                              *)
(***************************************************************************)
VARIABLES
    staff_file,         \* rows (first cells) of the staff CSV, header first
    encoding,           \* the locale's default encoding
    profiles_csv,       \* persons_profiles.csv: the rows appended
    profiles_json,      \* persons_profiles.json: the records of the array
    not_found,          \* persons_not_found.csv: the names appended
    pc,                 \* where main is
    run,                \* number of the current run
    staff_names,        \* main's staff_names
    existing_profiles,  \* main's existing_profiles
    idx,                \* position in staff_names of the loop's name
    profile_data,       \* main's profile_data between the two saves
    ui_search,          \* what the search shows for a query, once seen
    ui_scrape,          \* how the profile page of a query behaves, once seen
    searched,           \* history: the names searched for in this run
    outcome,            \* history: what each iteration of this run did
    recorded_before,    \* history: names with a JSON record at run start
    prev_csv,           \* history: the CSV sink as it was when the run began
    prev_end            \* history: how the previous run ended

bvars == <<staff_file, encoding, profiles_csv, profiles_json, not_found, pc,
           run, staff_names, existing_profiles, idx, profile_data, ui_search,
           ui_scrape, searched, outcome, recorded_before, prev_csv, prev_end>>

vars == <<bvars, svars, cvars, evars, pvars, jvars, morevars>>

\* the state of all specifications but one
nonbatch == <<svars, cvars, evars, pvars, jvars, morevars>>
nonschema == <<bvars, cvars, evars, pvars, jvars, morevars>>
noncode == <<bvars, svars, evars, pvars, jvars, morevars>>
nonbank == <<bvars, svars, cvars, pvars, jvars, morevars>>
nonprof == <<bvars, svars, cvars, evars, jvars, morevars>>
nonproj == <<bvars, svars, cvars, evars, pvars, morevars>>
nonrecord ==
    <<bvars, svars, cvars, evars, pvars, jvars, dvars, ivars, lvars>>
nondoc == <<bvars, svars, cvars, evars, pvars, jvars, rvars, ivars, lvars>>
nonitem == <<bvars, svars, cvars, evars, pvars, jvars, rvars, dvars, lvars>>
nonlookup ==
    <<bvars, svars, cvars, evars, pvars, jvars, rvars, dvars, ivars>>

RECURSIVE SeqsUpTo(_, _)
\* the sequences over S of length at most n
SeqsUpTo(S, n) ==
    IF n = 0 THEN {<<>>}
    ELSE LET shorter == SeqsUpTo(S, n - 1)
         IN  shorter \cup {Append(q, x) : q \in shorter, x \in S}

NoRecord == [name |-> <<>>, page |-> <<>>]

BatchInit ==
    /\ staff_file \in {<<Header>> \o cells : cells \in SeqsUpTo(Cells, MaxNames)}
    /\ encoding \in Encodings
    /\ profiles_csv = <<>>
    /\ profiles_json = <<>>
    /\ not_found = <<>>
    /\ pc = "start"
    /\ run = 1
    /\ staff_names = <<>>
    /\ existing_profiles = {}
    /\ idx = 1
    /\ profile_data = NoRecord
    /\ ui_search = <<>>
    /\ ui_scrape = <<>>
    /\ searched = <<>>
    /\ outcome = <<>>
    /\ recorded_before = {}
    /\ prev_csv = <<>>
    /\ prev_end = "none"
    /\ SchemaIdle
    /\ CodeIdle
    /\ BankIdle
    /\ ProfIdle
    /\ ProjIdle
    /\ MoreIdle

\* the responses of the UI are fixed: a query seen before is answered as it
\* was, a new one in any way
Answer(seen, seenNext, query, answer) ==
    IF query \in DOMAIN seen
    THEN answer = seen[query] /\ seenNext = seen
    ELSE seenNext = (query :> answer) @@ seen

\* what the search shows: no result within the wait, or a top result's text
NoResult == [found |-> FALSE, text |-> <<>>]
Result(text) == [found |-> TRUE, text |-> text]

name == staff_names[idx]

\* main.py 16-17: the work list and the index of existing records are read
ReadInputs ==
    /\ pc = "start"
    /\ staff_names' = read_staff_names(staff_file)
    /\ existing_profiles' = read_existing_profiles(profiles_csv, encoding)
    /\ idx' = 1
    /\ pc' = "loop"
    /\ searched' = <<>>
    /\ outcome' = <<>>
    /\ recorded_before' = {profiles_json[i].name : i \in 1..Len(profiles_json)}
    /\ prev_csv' = profiles_csv
    /\ UNCHANGED nonbatch
    /\ UNCHANGED <<staff_file, encoding, profiles_csv, profiles_json,
                   not_found, run, profile_data, ui_search, ui_scrape,
                   prev_end>>

InLoop == pc = "loop" /\ idx <= Len(staff_names)

\* main.py 27-29: a name of the index is skipped
Skip ==
    /\ InLoop
    /\ name \in existing_profiles
    /\ idx' = idx + 1
    /\ outcome' = Append(outcome, "skipped")
    /\ UNCHANGED nonbatch
    /\ UNCHANGED <<staff_file, encoding, profiles_csv, profiles_json,
                   not_found, pc, run, staff_names, existing_profiles,
                   profile_data, ui_search, ui_scrape, searched,
                   recorded_before, prev_csv, prev_end>>

\* main.py 31-43: the search is made and no result appears in time
SearchTimeout ==
    /\ InLoop
    /\ name \notin existing_profiles
    /\ Answer(ui_search, ui_search', name, NoResult)
    /\ searched' = Append(searched, name)
    /\ not_found' = Append(not_found, name)
    /\ idx' = idx + 1
    /\ outcome' = Append(outcome, "not_found")
    /\ UNCHANGED nonbatch
    /\ UNCHANGED <<staff_file, encoding, profiles_csv, profiles_json, pc, run,
                   staff_names, existing_profiles, profile_data, ui_scrape,
                   recorded_before, prev_csv, prev_end>>

\* the mismatch logged without the continue of main.py 49: the name is
\* logged as not found and its profile is scraped and saved all the same
NoMatchFallsThrough ==
    /\ InLoop
    /\ name \notin existing_profiles
    /\ \E first_result_text \in DisplayedNames :
        /\ Answer(ui_search, ui_search', name, Result(first_result_text))
        /\ ~Contains(name, first_result_text)
        /\ profile_data' = [name |-> name, page |-> first_result_text]
    /\ searched' = Append(searched, name)
    /\ not_found' = Append(not_found, name)
    /\ profiles_csv' = Append(profiles_csv, CsvRow(profile_data'))
    /\ pc' = "save_json"
    /\ UNCHANGED nonbatch
    /\ UNCHANGED <<staff_file, encoding, profiles_json, run, staff_names,
                   existing_profiles, idx, ui_scrape, outcome,
                   recorded_before, prev_csv, prev_end>>

\* main.py 31-49: the top result's text does not contain the name
NoMatch ==
    /\ InLoop
    /\ name \notin existing_profiles
    /\ \E first_result_text \in DisplayedNames :
        /\ Answer(ui_search, ui_search', name, Result(first_result_text))
        /\ ~Contains(name, first_result_text)
    /\ searched' = Append(searched, name)
    /\ not_found' = Append(not_found, name)
    /\ idx' = idx + 1
    /\ outcome' = Append(outcome, "not_found")
    /\ UNCHANGED nonbatch
    /\ UNCHANGED <<staff_file, encoding, profiles_csv, profiles_json, pc, run,
                   staff_names, existing_profiles, profile_data, ui_scrape,
                   recorded_before, prev_csv, prev_end>>

\* main.py 31-52: the top result matches, scrape_profile returns a record
\* and save_profile_data appends it to the CSV sink
ScrapeAndSaveCsv ==
    /\ InLoop
    /\ name \notin existing_profiles
    /\ \E first_result_text \in DisplayedNames :
        /\ Answer(ui_search, ui_search', name, Result(first_result_text))
        /\ Contains(name, first_result_text)
        /\ Answer(ui_scrape, ui_scrape', name, "returns")
        /\ profile_data' = [name |-> name, page |-> first_result_text]
    /\ searched' = Append(searched, name)
    /\ profiles_csv' = Append(profiles_csv, CsvRow(profile_data'))
    /\ pc' = "save_json"
    /\ UNCHANGED nonbatch
    /\ UNCHANGED <<staff_file, encoding, profiles_json, not_found, run,
                   staff_names, existing_profiles, idx, outcome,
                   recorded_before, prev_csv, prev_end>>

\* main.py 53: save_profile_data_json rewrites the JSON array with the
\* record added, and the loop goes on
SaveJson ==
    /\ pc = "save_json"
    /\ profiles_json' = Append(profiles_json, profile_data)
    /\ profile_data' = NoRecord
    /\ idx' = idx + 1
    /\ outcome' = Append(outcome, "saved")
    /\ pc' = "loop"
    /\ UNCHANGED nonbatch
    /\ UNCHANGED <<staff_file, encoding, profiles_csv, not_found, run,
                   staff_names, existing_profiles, ui_search, ui_scrape,
                   searched, recorded_before, prev_csv, prev_end>>

\* how scrape_profile may fail on a profile page: a marker awaited by
\* _wait_for_profile_load does not appear (scraper.py 98, 122-128), or a
\* later extractor raises
ScrapeFailures == {"load_timeout", "extractor_raises"}

\* main.py 51: scrape_profile raises; nothing in main catches it, so it
\* leaves the loop and main
ScrapeRaises ==
    /\ InLoop
    /\ name \notin existing_profiles
    /\ \E first_result_text \in DisplayedNames, failure \in ScrapeFailures :
        /\ Answer(ui_search, ui_search', name, Result(first_result_text))
        /\ Contains(name, first_result_text)
        /\ Answer(ui_scrape, ui_scrape', name, failure)
    /\ searched' = Append(searched, name)
    /\ outcome' = Append(outcome, "raised")
    /\ pc' = "crashed"
    /\ UNCHANGED nonbatch
    /\ UNCHANGED <<staff_file, encoding, profiles_csv, profiles_json,
                   not_found, run, staff_names, existing_profiles, idx,
                   profile_data, recorded_before, prev_csv, prev_end>>

\* main.py 24, 57: the work list is exhausted and the browser is closed
Finish ==
    /\ pc = "loop"
    /\ idx > Len(staff_names)
    /\ pc' = "done"
    /\ UNCHANGED nonbatch
    /\ UNCHANGED <<staff_file, encoding, profiles_csv, profiles_json,
                   not_found, run, staff_names, existing_profiles, idx,
                   profile_data, ui_search, ui_scrape, searched, outcome,
                   recorded_before, prev_csv, prev_end>>

\* main.py 24-55, 60-61: the process is interrupted or killed while the
\* loop runs, between any two of its steps; what it held in memory is lost
Interrupt ==
    /\ pc \in {"loop", "save_json"}
    /\ pc' = "interrupted"
    /\ profile_data' = NoRecord
    /\ UNCHANGED nonbatch
    /\ UNCHANGED <<staff_file, encoding, profiles_csv, profiles_json,
                   not_found, run, staff_names, existing_profiles, idx,
                   ui_search, ui_scrape, searched, outcome, recorded_before,
                   prev_csv, prev_end>>

\* main.py 60-61: the program is started again on the same files
Rerun ==
    /\ pc \in {"done", "crashed", "interrupted"}
    /\ run < MaxRuns
    /\ run' = run + 1
    /\ prev_end' = pc
    /\ pc' = "start"
    /\ UNCHANGED nonbatch
    /\ UNCHANGED <<staff_file, encoding, profiles_csv, profiles_json,
                   not_found, staff_names, existing_profiles, idx,
                   profile_data, ui_search, ui_scrape, searched, outcome,
                   recorded_before, prev_csv>>

Next ==
    \/ ReadInputs
    \/ Skip
    \/ SearchTimeout
    \/ NoMatch
    \/ ScrapeAndSaveCsv
    \/ SaveJson
    \/ ScrapeRaises
    \/ Finish
    \/ Interrupt
    \/ Rerun

Init == BatchInit

Spec == Init /\ [][Next]_vars


(***************************************************************************)
(* Properties of the batch driver.                                         *)
(***************************************************************************)
\* the elements of a sequence
Range(q) == {q[i] : i \in 1..Len(q)}

\* the rows appended to the CSV sink since the run began
AppendedRows == SubSeq(profiles_csv, Len(prev_csv) + 1, Len(profiles_csv))

\* text has name as a substring, stated without the driver's own test
IsSubstring(n, text) ==
    \E i \in 1..(Len(text) + 1), j \in 0..Len(text) : SubSeq(text, i, j) = n

\* the search for the i-th name of the run showed a top result containing it
Matched(i) ==
    /\ staff_names[i] \in DOMAIN ui_search
    /\ ui_search[staff_names[i]].found
    /\ IsSubstring(staff_names[i], ui_search[staff_names[i]].text)

\* the search for the i-th name of the run showed this text
Showed(i, n, text) ==
    /\ staff_names[i] = n
    /\ outcome[i] # "skipped"
    /\ ui_search[n] = Result(text)

Extracted(i) == outcome[i] \in {"saved", "raised"}

\* C1 (as claimed): a second run after a completed first run leaves the set
\* of persisted records as it was, and searches for no name that already
\* has a persisted record.
C1_IdempotentResume ==
    (run >= 2 /\ prev_end = "done") =>
        /\ \A i \in 1..Len(searched) : searched[i] \notin recorded_before
        /\ pc = "done" => Range(profiles_csv) = Range(prev_csv)

\* C2 (as claimed): no failure inside scrape_profile stops the batch; it is
\* caught at the profile boundary and every name of the work list gets
\* processed.
C2_ForwardProgress ==
    /\ pc # "crashed"
    /\ pc = "done" => Len(outcome) = Len(staff_names)

\* the rows C10 expects of the run: the work list in order without the
\* skipped and the not-found names
RECURSIVE ExpectedRows(_)
ExpectedRows(i) ==
    IF i > Len(staff_names) THEN <<>>
    ELSE (IF staff_names[i] \notin existing_profiles /\ Matched(i)
          THEN <<CsvRow([name |-> staff_names[i],
                         page |-> ui_search[staff_names[i]].text])>>
          ELSE <<>>)
         \o ExpectedRows(i + 1)

\* C10 (as claimed): the records appended during one run are exactly the
\* work list in iteration order with the skipped and the not-found names
\* removed.
C10_PersistenceOrder ==
    pc \in {"done", "crashed"} => AppendedRows = ExpectedRows(1)

\* C8 (as amended): extraction is started exactly when the top result's text
\* contains the query name, every other searched name is logged as not
\* found; "Smith,Jane" gives the query "Jane Smith" and "Smith, Jane" gives
\* " Jane Smith"; "Jane A. Smith" and "John Doe" shown for "Jane Smith" are
\* logged as not found, "Jane Smith" shown for "Jane Smith" is a match and
\* shown for " Jane Smith" it is not.
C8_NotFoundDisambiguation ==
    \A i \in 1..Len(outcome) :
        /\ Extracted(i) => Matched(i)
        /\ outcome[i] = "not_found" =>
              ~Matched(i) /\ staff_names[i] \in Range(not_found)
        /\ staff_file[i + 1] = CellSmithJane => staff_names[i] = JaneSmith
        /\ staff_file[i + 1] = CellSmithSpJane => staff_names[i] = SpJaneSmith
        /\ Showed(i, JaneSmith, JaneASmith) => outcome[i] = "not_found"
        /\ Showed(i, JaneSmith, JohnDoe) => outcome[i] = "not_found"
        /\ Showed(i, JaneSmith, JaneSmith) => Extracted(i)
        /\ Showed(i, SpJaneSmith, JaneSmith) => outcome[i] = "not_found"

\* C8, witness: "Jane A. Smith" was shown for the query "Jane Smith" and the
\* name went to the not-found log
C8_Witness ==
    \E i \in 1..Len(outcome) :
        /\ Showed(i, JaneSmith, JaneASmith)
        /\ outcome[i] = "not_found"
        /\ JaneSmith \in Range(not_found)

\* the names of the work list that one uninterrupted run persists: those
\* whose search shows a top result containing them
Persisted(i) ==
    /\ staff_names[i] \in DOMAIN ui_search
    /\ Matched(i)

\* the record of the i-th name of the work list
RecordOf(i) ==
    [name |-> staff_names[i], page |-> ui_search[staff_names[i]].text]

\* C11 (as claimed): when a run was interrupted and the batch is then run
\* again to completion, the CSV sink and the JSON sink alike hold the
\* record set of one uninterrupted run.
C11_InterruptResume ==
    (run >= 2 /\ prev_end = "interrupted" /\ pc = "done") =>
        LET expected == {i \in 1..Len(staff_names) : Persisted(i)}
        IN  /\ Range(profiles_json) = {RecordOf(i) : i \in expected}
            /\ Range(profiles_csv) = {CsvRow(RecordOf(i)) : i \in expected}

\* C15 (as claimed): when a marker of the profile page does not appear in
\* time after the result was clicked, the name goes to the not-found log,
\* no record is persisted for it and the batch goes on with the next name.
C15_LoadTimeoutNotFound ==
    \A n \in DOMAIN ui_scrape :
        ui_scrape[n] = "load_timeout" =>
            /\ pc # "crashed"
            /\ n \in Range(not_found)
            /\ \A i \in 1..Len(profiles_json) : profiles_json[i].name # n

\* C8 (as claimed): "Jane A. Smith" shown for the query name "Jane Smith",
\* derived from the work-list entry "Smith, Jane", is a successful match,
\* and "John Doe" is logged as not found.
C8_AsClaimed ==
    \A i \in 1..Len(outcome) :
        /\ staff_file[i + 1] = CellSmithSpJane => staff_names[i] = JaneSmith
        /\ Showed(i, JaneSmith, JaneASmith) => Extracted(i)
        /\ Showed(i, JaneSmith, JohnDoe) => outcome[i] = "not_found"


(***************************************************************************)
(* CodeSpec: the project code of one listing item,                         *)
(* scraper.py:510-522, on every short href and on the documented ones.     *)
(***************************************************************************)
\* longest href drawn from HrefAlphabet
MaxHrefLen == 6
HrefAlphabet == {"/", "P", "7", "x"}
Digits == {"0", "1", "2", "3", "4", "5", "6", "7", "8", "9"}
ProjectTypes == {"lending", "nonlending", "ifc"}

CodeP123456 == <<"P", "1", "2", "3", "4", "5", "6">>
Code40987 == <<"4", "0", "9", "8", "7">>
HrefP123456 == <<".", ".", ".", "/">> \o CodeP123456 \o <<"/", "a", "b", "c">>
Href40987 == <<".", ".", ".", "/">> \o Code40987 \o <<"/", "x", "y", "z">>
HrefNoCode == <<".", ".", ".", "/", "a", "b", "c", "/", "4", "0", "9", "8">>
ExampleHrefs == {HrefP123456, Href40987, HrefNoCode}

\* str.isdigit(): not empty, and digits only
isdigit(part) == part # <<>> /\ \A i \in 1..Len(part) : part[i] \in Digits

\* str.startswith(prefix) for a one-character prefix
startswith(part, prefix) == part # <<>> /\ part[1] = prefix

\* the shortest IFC code
IfcMinLen == 5

\* scraper.py 514-522: the test a path segment passes to be the code
IsCode(ptype, part) ==
    IF ptype = "ifc"
    THEN isdigit(part) /\ Len(part) >= IfcMinLen
    ELSE startswith(part, "P") /\ isdigit(Tail(part))

RECURSIVE FirstCodeForward(_, _)
\* the scan with reversed() left out: the first segment from the front
FirstCodeForward(ptype, parts) ==
    IF parts = <<>> THEN <<>>
    ELSE IF IsCode(ptype, Head(parts)) THEN Head(parts)
         ELSE FirstCodeForward(ptype, Tail(parts))

RECURSIVE FirstCodeReversed(_, _)
\* scraper.py 513-522: for part in reversed(parts), the first that passes
FirstCodeReversed(ptype, parts) ==
    IF parts = <<>> THEN <<>>
    ELSE IF IsCode(ptype, parts[Len(parts)]) THEN parts[Len(parts)]
         ELSE FirstCodeReversed(ptype, SubSeq(parts, 1, Len(parts) - 1))

\* scraper.py 510-522: the code of an item from its href
ProjectCode(ptype, h) ==
    IF h # <<>> THEN FirstCodeReversed(ptype, Split(h, "/")) ELSE <<>>

CodeInit ==
    /\ href \in SeqsUpTo(HrefAlphabet, MaxHrefLen) \cup ExampleHrefs
    /\ project_type \in ProjectTypes
    /\ code = <<>>
    /\ c_pc = "item"

\* scraper.py 508-522 for one item
ParseCode ==
    /\ c_pc = "item"
    /\ code' = ProjectCode(project_type, href)
    /\ c_pc' = "parsed"
    /\ UNCHANGED <<href, project_type>>
    /\ UNCHANGED noncode

\* h[i..j] is a path segment of h: a maximal stretch without "/"
IsSegment(h, i, j) ==
    /\ 1 <= i /\ i <= j + 1 /\ j <= Len(h)
    /\ i = 1 \/ h[i - 1] = "/"
    /\ j = Len(h) \/ h[j + 1] = "/"
    /\ \A k \in i..j : h[k] # "/"

\* the segment h[i..j] is in the grammar of the category
InGrammar(ptype, h, i, j) ==
    IF ptype = "ifc"
    THEN j - i + 1 >= 5 /\ \A k \in i..j : h[k] \in Digits
    ELSE j - i + 1 >= 2 /\ h[i] = "P" /\ \A k \in (i + 1)..j : h[k] \in Digits

CodeSegment(ptype, h, i, j) == IsSegment(h, i, j) /\ InGrammar(ptype, h, i, j)

\* C7: the code is the last path segment of the href that is in the grammar
\* of the category (IFC: digits only, at least 5; otherwise "P" and then
\* digits only, at least one), and the empty text when no segment is;
\* ".../P123456/abc" gives "P123456", IFC ".../40987/xyz" gives "40987".
C7_CodeParsing ==
    c_pc = "parsed" =>
        LET P == 0..(Len(href) + 1)
            hits == {ij \in P \X P :
                        CodeSegment(project_type, href, ij[1], ij[2])}
        IN  /\ hits = {} => code = <<>>
            /\ \A ij \in hits :
                  (\A kl \in hits : kl[1] <= ij[1]) =>
                      code = SubSeq(href, ij[1], ij[2])
            /\ (href = HrefP123456 /\ project_type # "ifc") =>
                  code = CodeP123456
            /\ (href = Href40987 /\ project_type = "ifc") => code = Code40987

\* C7, witness: the documented lending href was parsed to "P123456"
C7_Witness ==
    /\ c_pc = "parsed"
    /\ href = HrefP123456
    /\ project_type = "lending"
    /\ code = CodeP123456

\* the batch driver's state when another specification runs
BatchIdle ==
    /\ staff_file = <<Header>>
    /\ encoding = "utf-8"
    /\ profiles_csv = <<>>
    /\ profiles_json = <<>>
    /\ not_found = <<>>
    /\ pc = "idle"
    /\ run = 1
    /\ staff_names = <<>>
    /\ existing_profiles = {}
    /\ idx = 1
    /\ profile_data = NoRecord
    /\ ui_search = <<>>
    /\ ui_scrape = <<>>
    /\ searched = <<>>
    /\ outcome = <<>>
    /\ recorded_before = {}
    /\ prev_csv = <<>>
    /\ prev_end = "none"

CodeSpecInit ==
    CodeInit /\ BatchIdle /\ SchemaIdle /\ BankIdle /\ ProfIdle /\ ProjIdle
        /\ MoreIdle

CodeNext == ParseCode

CodeSpec == CodeSpecInit /\ [][CodeNext]_vars


(***************************************************************************)
(* SchemaSpec: ProfileData and the end of scrape_profile,                  *)
(* scraper.py:114-120, followed by main's two saves, main.py:51-53, for    *)
(* any dictionary the section extractors may have left.                    *)
(***************************************************************************)
\* most fields the section extractors may have left out
MaxMissing == 2

\* the fields the section extractors assign (scraper.py 12-33)
SectionFields ==
    {"name", "official_unit_name", "current_unit_name", "unit_code",
     "work_and_duty_location", "room_number", "url", "upi",
     "years_in_current_position", "years_in_fci", "years_in_bank",
     "last_position", "all_positions", "pre_bank_experience",
     "formal_education", "documents_and_reports", "document_ids",
     "areas_of_expertise", "skills", "languages", "list_of_awards",
     "total_number_of_awards"}

\* the keys of the dictionary scrape_projects returns (scraper.py 34-49)
ProjectFields ==
    {"lending_projects", "lending_project_codes", "lending_project_statuses",
     "lending_project_years", "non_lending_projects",
     "non_lending_project_codes", "non_lending_project_statuses",
     "non_lending_project_years", "ifc_projects", "ifc_project_codes",
     "ifc_project_statuses", "ifc_project_years", "all_projects",
     "all_project_codes", "all_project_statuses", "all_project_years"}

\* ProfileData.__annotations__: the declared fields
Fields == SectionFields \cup ProjectFields

\* keys that are no field of ProfileData
UndeclaredKeys == {"nickname"}

\* a dataclass whose fields all have defaults: missing arguments pass
ProfileDataDefaulted(kwargs) == DOMAIN kwargs \subseteq Fields

\* ProfileData(**kwargs), the generated __init__: every field is a required
\* argument and no other keyword is taken; otherwise TypeError
ProfileDataAccepts(kwargs) == DOMAIN kwargs = Fields

\* dict.update(other)
update(d, other) ==
    [k \in DOMAIN d \cup DOMAIN other |->
        IF k \in DOMAIN other THEN other[k] ELSE d[k]]

\* what scrape_projects returns: its sixteen keys on both of its paths
project_data == [k \in ProjectFields |-> "projects"]

SchemaInit ==
    /\ \E missing \in SUBSET SectionFields, extra \in SUBSET UndeclaredKeys :
        /\ Cardinality(missing) <= MaxMissing
        /\ profile_dict =
              [k \in (SectionFields \ missing) \cup extra |-> "sections"]
    /\ s_pc = "scrape"
    /\ s_error = "none"
    /\ s_csv = <<>>
    /\ s_json = <<>>

\* scraper.py 114: profile_dict['upi'] of a dictionary without it
ScrapeKeyError ==
    /\ s_pc = "scrape"
    /\ "upi" \notin DOMAIN profile_dict
    /\ s_pc' = "raised"
    /\ s_error' = "KeyError"
    /\ UNCHANGED <<profile_dict, s_csv, s_json>>
    /\ UNCHANGED nonschema

\* scraper.py 114-120: the image, the projects, and ProfileData refuses
ScrapeTypeError ==
    /\ s_pc = "scrape"
    /\ "upi" \in DOMAIN profile_dict
    /\ ~ProfileDataAccepts(update(profile_dict, project_data))
    /\ s_pc' = "raised"
    /\ s_error' = "TypeError"
    /\ UNCHANGED <<profile_dict, s_csv, s_json>>
    /\ UNCHANGED nonschema

\* scraper.py 114-120: the image, the projects, and the record is built
ScrapeReturns ==
    /\ s_pc = "scrape"
    /\ "upi" \in DOMAIN profile_dict
    /\ ProfileDataAccepts(update(profile_dict, project_data))
    /\ profile_dict' = update(profile_dict, project_data)
    /\ s_pc' = "returned"
    /\ UNCHANGED <<s_error, s_csv, s_json>>
    /\ UNCHANGED nonschema

\* main.py 52: save_profile_data(profile_data)
SaveRecordCsv ==
    /\ s_pc = "returned"
    /\ s_csv' = Append(s_csv, profile_dict)
    /\ s_pc' = "csv_saved"
    /\ UNCHANGED <<profile_dict, s_error, s_json>>
    /\ UNCHANGED nonschema

\* main.py 53: save_profile_data_json(profile_data)
SaveRecordJson ==
    /\ s_pc = "csv_saved"
    /\ s_json' = Append(s_json, profile_dict)
    /\ s_pc' = "saved"
    /\ UNCHANGED <<profile_dict, s_error, s_csv>>
    /\ UNCHANGED nonschema

SchemaNext ==
    \/ ScrapeKeyError
    \/ ScrapeTypeError
    \/ ScrapeReturns
    \/ SaveRecordCsv
    \/ SaveRecordJson

SchemaSpecInit ==
    SchemaInit /\ BatchIdle /\ CodeIdle /\ BankIdle /\ ProfIdle /\ ProjIdle
        /\ MoreIdle

SchemaSpec == SchemaSpecInit /\ [][SchemaNext]_vars

\* C4: every record handed to either sink has every declared field
\* assigned, and when a declared field was never set scrape_profile fails
\* and nothing is written for the profile to either sink.
C4_SchemaGate ==
    /\ \A i \in 1..Len(s_csv) : Fields \subseteq DOMAIN s_csv[i]
    /\ \A i \in 1..Len(s_json) : Fields \subseteq DOMAIN s_json[i]
    /\ (s_pc # "scrape" /\ ~(Fields \subseteq DOMAIN profile_dict)) =>
          /\ s_pc = "raised"
          /\ s_csv = <<>>
          /\ s_json = <<>>

\* C4, witness: a field other than upi was never set, building the record
\* failed and both sinks are untouched
C4_Witness ==
    /\ s_pc = "raised"
    /\ s_error = "TypeError"
    /\ "years_in_bank" \notin DOMAIN profile_dict
    /\ UndeclaredKeys \cap DOMAIN profile_dict = {}
    /\ s_csv = <<>>
    /\ s_json = <<>>


(***************************************************************************)
(* BankSpec: _extract_bank_experience and _calculate_years,                *)
(* scraper.py:160-206 and 375-380. A date is the number of its day, a      *)
(* number of years is counted in hundredths.                               *)
(***************************************************************************)
\* most entries of the bank-experience list
MaxEntries == 3
\* the start dates are the days 0, DayStep, ..., MaxDateIdx * DayStep
MaxDateIdx == 2
DayStep == 200

Dates == {k * DayStep : k \in 0..MaxDateIdx}
\* the day the extraction runs on, after every start date
Today == (MaxDateIdx + 1) * DayStep

UnitFCI == <<"F", "C", "I">>
UnitFCILong ==
    <<"F", "i", "n", "a", "n", "c", "e", ",", " ", "C", "o", "m", "p", "e",
      "t", "i", "t", "i", "v", "e", "n", "e", "s", "s", " ", "&", " ", "I",
      "n", "n", "o", "v", "a", "t", "i", "o", "n">>
UnitEFIFCI == <<"E", "F", "I", " ", "-", " ", "F", "C", "I">>
UnitIFC == <<"I", "F", "C">>
Units == {UnitEFIFCI, UnitFCILong, UnitIFC}
Designation == <<"E", "T">>

\* an entry of the list: whether it has a .sf-experience-from element
\* ("none"), one whose text strptime parses ("ok") or one it does not
\* ("bad"); the day the text names; the unit's text
Entries ==
    [dated : {"ok"}, date : Dates, unit : Units]
    \cup [dated : {"none", "bad"}, date : {0}, unit : {UnitIFC}]

\* 100 * 365.25, the divisor of _calculate_years
DaysPerYearX100 == 36525

\* round(n / d, 0) for d > 0: to the nearest integer, a tie to the even one
RoundDiv(n, d) ==
    LET a == IF n < 0 THEN -n ELSE n
        q == a \div d
        r == a % d
        up == 2 * r > d \/ (2 * r = d /\ q % 2 = 1)
        m == IF up THEN q + 1 ELSE q
    IN  IF n < 0 THEN -m ELSE m

\* _calculate_years: whole days / 365.25, rounded to 2 decimals; in
\* hundredths of a year
calculate_years(start_date, end_date) ==
    RoundDiv((end_date - start_date) * 10000, DaysPerYearX100)

None == [set |-> FALSE, v |-> 0]
Some(x) == [set |-> TRUE, v |-> x]

\* a start that is set by the first dated entry and never compared again
BankStartOfFirst(bank_start, date) ==
    IF ~bank_start.set THEN Some(date) ELSE bank_start

\* scraper.py 184-185: bank_start after an entry that starts on date
BankStart(bank_start, date) ==
    IF ~bank_start.set \/ bank_start.v > date THEN Some(date) ELSE bank_start

\* the test for the abbreviation alone
IsFciShort(unit) == Contains(UnitFCI, unit)

\* scraper.py 187: the unit is the sub-organization
IsFci(unit) == Contains(UnitFCI, unit) \/ Contains(UnitFCILong, unit)

\* f"{designation} - {unit}"
PositionText(designation, unit) == designation \o <<" ", "-", " ">> \o unit

\* scraper.py 162-167: the loop's variables before the first entry
BankLoopStart(now) ==
    [current_position_start |-> None,
     bank_start |-> None,
     last_position |-> <<>>,
     all_positions |-> <<>>,
     years_in_fci |-> 0,
     next_position_start_date |-> now,
     raised |-> FALSE]

\* scraper.py 170-195: one pass of the loop over the entry exp
BankLoopBody(st, exp) ==
    IF st.raised \/ exp.dated = "none" THEN st
    ELSE IF exp.dated = "bad" THEN [st EXCEPT !.raised = TRUE]
    ELSE [st EXCEPT
            !.bank_start = BankStart(st.bank_start, exp.date),
            !.years_in_fci =
                IF IsFci(exp.unit)
                THEN @ + calculate_years(exp.date, st.next_position_start_date)
                ELSE @,
            !.current_position_start =
                IF ~st.current_position_start.set THEN Some(exp.date) ELSE @,
            !.last_position =
                IF ~st.current_position_start.set
                THEN PositionText(Designation, exp.unit) ELSE @,
            !.all_positions =
                Append(@, [date_str |-> exp.date,
                           text |-> PositionText(Designation, exp.unit)]),
            !.next_position_start_date = exp.date]

RECURSIVE BankLoop(_, _)
\* scraper.py 169: for exp in bank_experience
BankLoop(st, exps) ==
    IF exps = <<>> THEN st ELSE BankLoop(BankLoopBody(st, Head(exps)), Tail(exps))

\* scraper.py 197-206: the dictionary returned; now2 is datetime.now() as
\* _calculate_years reads it
BankReturn(st, now2) ==
    [years_in_current_position |->
        IF st.current_position_start.set
        THEN calculate_years(st.current_position_start.v, now2) ELSE 0,
     years_in_fci |-> st.years_in_fci,
     years_in_bank |->
        IF st.bank_start.set THEN calculate_years(st.bank_start.v, now2) ELSE 0,
     last_position |-> st.last_position,
     all_positions |-> st.all_positions]

BankInit ==
    /\ bank_experience \in SeqsUpTo(Entries, MaxEntries)
    /\ today = Today
    /\ late \in {0, 1}
    /\ bank_result = <<>>
    /\ e_pc = "extract"

\* _extract_bank_experience returns
ExtractBankExperience ==
    /\ e_pc = "extract"
    /\ LET st == BankLoop(BankLoopStart(today), bank_experience)
       IN  /\ ~st.raised
           /\ bank_result' = BankReturn(st, today + late)
    /\ e_pc' = "returned"
    /\ UNCHANGED <<bank_experience, today, late>>
    /\ UNCHANGED nonbank

\* _extract_bank_experience is left by strptime's ValueError
ExtractBankExperienceRaises ==
    /\ e_pc = "extract"
    /\ BankLoop(BankLoopStart(today), bank_experience).raised
    /\ e_pc' = "raised"
    /\ UNCHANGED <<bank_experience, today, late, bank_result>>
    /\ UNCHANGED nonbank

BankNext ==
    \/ ExtractBankExperience
    \/ ExtractBankExperienceRaises

BankSpecInit ==
    BankInit /\ BatchIdle /\ SchemaIdle /\ CodeIdle /\ ProfIdle /\ ProjIdle
        /\ MoreIdle

BankSpec == BankSpecInit /\ [][BankNext]_vars

\* the start dates of the dated entries, in DOM order
RECURSIVE StartDates(_)
StartDates(exps) ==
    IF exps = <<>> THEN <<>>
    ELSE (IF Head(exps).dated = "ok" THEN <<Head(exps).date>> ELSE <<>>)
         \o StartDates(Tail(exps))

StrictlyDecreasing(q) == \A i \in 1..(Len(q) - 1) : q[i] > q[i + 1]

\* y hundredths is days / 365.25 years rounded to 2 decimals
IsYearsOf(y, days) ==
    /\ 2 * (36525 * y - 10000 * days) <= 36525
    /\ 2 * (10000 * days - 36525 * y) <= 36525

\* C9: for N >= 1 dated entries in strictly decreasing start-date order,
\* years_in_bank is the whole days from the earliest start date to now,
\* divided by 365.25 and rounded to 2 decimals, whatever N is.
C9_TenureInBank ==
    LET dates == StartDates(bank_experience)
    IN  (e_pc = "returned" /\ Len(dates) >= 1 /\ StrictlyDecreasing(dates)) =>
            IsYearsOf(bank_result.years_in_bank,
                      today + late - dates[Len(dates)])

\* C9, witness: three dated entries in strictly decreasing order, the
\* earliest on day 0, were extracted after midnight passed
C9_Witness ==
    LET dates == StartDates(bank_experience)
    IN  /\ e_pc = "returned"
        /\ Len(dates) = 3
        /\ StrictlyDecreasing(dates)
        /\ late = 1
        /\ bank_result.years_in_bank = 165

\* the dated entries, in DOM order
DatedEntries(exps) == SelectSeq(exps, LAMBDA e : e.dated = "ok")

\* the hundredths of a year elapsed from the day start to the day end
ElapsedYears(start, end) ==
    CHOOSE y \in -(Today + 1)..(Today + 1) : IsYearsOf(y, end - start)

\* the unit's text names the sub-organization
NamesFci(unit) == IsSubstring(UnitFCI, unit) \/ IsSubstring(UnitFCILong, unit)

RECURSIVE FciYears(_, _)
\* the fold of C18 over the dated entries, carried being the start date of
\* the entry before (now for the first)
FciYears(dated, carried) ==
    IF dated = <<>> THEN 0
    ELSE (IF NamesFci(Head(dated).unit)
          THEN ElapsedYears(Head(dated).date, carried) ELSE 0)
         + FciYears(Tail(dated), Head(dated).date)

\* C18: years_in_fci is the sum, over the dated entries in DOM order whose
\* unit contains "FCI" or "Finance, Competitiveness & Innovation", of the
\* years elapsed from the entry's start date to the start date of the dated
\* entry before it, matching or not (to now for the first); the current
\* position is the first dated entry.
C18_FciTenureFold ==
    e_pc = "returned" =>
        LET dated == DatedEntries(bank_experience)
        IN  /\ bank_result.years_in_fci = FciYears(dated, today)
            /\ dated # <<>> =>
                  /\ bank_result.last_position =
                        Designation \o <<" ", "-", " ">> \o dated[1].unit
                  /\ bank_result.years_in_current_position =
                        ElapsedYears(dated[1].date, today + late)
            /\ dated = <<>> =>
                  /\ bank_result.last_position = <<>>
                  /\ bank_result.years_in_current_position = 0

\* C18, witness: three dated entries, the second outside the
\* sub-organization and the third inside it, its years counted up to the
\* start of the second
C18_Witness ==
    LET dated == DatedEntries(bank_experience)
    IN  /\ e_pc = "returned"
        /\ Len(dated) = 3
        /\ StrictlyDecreasing(StartDates(bank_experience))
        /\ ~NamesFci(dated[1].unit)
        /\ ~NamesFci(dated[2].unit)
        /\ dated[3].unit = UnitFCILong
        /\ bank_result.years_in_fci =
              ElapsedYears(dated[3].date, dated[2].date)
        /\ bank_result.years_in_fci > 0


(***************************************************************************)
(* ProfSpec: scrape_profile, scraper.py:97-120, one extractor per step, on *)
(* a profile page that main has opened, and main's two saves,              *)
(* main.py:51-53. A value of profile_dict is "parsed" (read from the       *)
(* page), "empty" (an empty list) or "absent" (what the extractor returns  *)
(* for a section without a tab).                                           *)
(***************************************************************************)
\* how a profile page may behave:
\*   load       the three markers of _wait_for_profile_load appear or not
\*   bank       every start date parses, or one does not
\*   prebank, education, documents
\*              the section has no tab, loads, or its content or its
\*              "See Less" label does not appear within the timeout
\*   image      there is no image, the screenshot is taken, or it fails
Pages ==
    [load : {"ok", "timeout"},
     bank : {"ok", "bad_date"},
     prebank : {"absent", "loaded", "stuck"},
     education : {"absent", "loaded", "stuck"},
     documents : {"absent", "loaded", "stuck"},
     image : {"none", "saved", "fails"}]

\* the keys each extractor returns
BasicInfoKeys ==
    {"name", "official_unit_name", "current_unit_name", "unit_code",
     "work_and_duty_location", "room_number", "url", "upi"}
BankKeys ==
    {"years_in_current_position", "years_in_fci", "years_in_bank",
     "last_position", "all_positions"}
DocumentKeys == {"documents_and_reports", "document_ids"}
ExpertiseKeys == {"areas_of_expertise", "skills", "languages"}
AwardKeys == {"list_of_awards", "total_number_of_awards"}

\* an extractor's dictionary: its keys, all with one value
Returned(keys, value) == [k \in keys |-> value]

\* scraper.py 282-290: the waits of _extract_documents_and_reports are
\* inside try/except Exception, so the extractor returns on every page
DocumentsOutcome(status) == "returns"

\* scraper.py 215-220: the click and the wait of
\* _extract_pre_bank_experience are not inside any try
PreBankOutcome(status) == IF status = "stuck" THEN "raises" ELSE "returns"

\* scraper.py 250-256: nor are those of _extract_formal_education
EducationOutcome(status) == IF status = "stuck" THEN "raises" ELSE "returns"

\* the value an extractor gives its keys on a section of this status
SectionValue(status) ==
    CASE status = "absent" -> "absent"
      [] status = "loaded" -> "parsed"
      [] status = "stuck" -> "empty"

ProfInit ==
    /\ page \in Pages
    /\ p_pc = "load"
    /\ p_dict = <<>>
    /\ p_calls = <<>>
    /\ p_error = "none"
    /\ p_csv = <<>>
    /\ p_json = <<>>

\* scrape_profile with the image captured after the project listings
ProfStepImageLast(at, extractor, result, then) ==
    /\ p_pc = at
    /\ p_calls' = Append(p_calls, extractor)
    /\ p_dict' = update(p_dict, result)
    /\ p_pc' = CASE at = "awards" -> "projects"
                [] at = "projects" -> "image"
                [] at = "image" -> "construct"
                [] OTHER -> then
    /\ UNCHANGED <<page, p_error, p_csv, p_json>>
    /\ UNCHANGED nonprof

\* an extractor returns its dictionary and scrape_profile goes on
ProfStep(at, extractor, result, then) ==
    /\ p_pc = at
    /\ p_calls' = Append(p_calls, extractor)
    /\ p_dict' = update(p_dict, result)
    /\ p_pc' = then
    /\ UNCHANGED <<page, p_error, p_csv, p_json>>
    /\ UNCHANGED nonprof

\* an extractor raises; scrape_profile catches nothing and neither does
\* main, so the exception leaves both
ProfRaise(at, extractor, error) ==
    /\ p_pc = at
    /\ p_calls' = Append(p_calls, extractor)
    /\ p_error' = error
    /\ p_pc' = "raised"
    /\ UNCHANGED <<page, p_dict, p_csv, p_json>>
    /\ UNCHANGED nonprof

\* scraper.py 98-103: the markers appear and the "See All" links are clicked
WaitForProfileLoad ==
    /\ page.load = "ok"
    /\ ProfStep("load", "_wait_for_profile_load", <<>>, "basic_info")

\* scraper.py 98, 122-128: a marker does not appear within 5 s
WaitForProfileLoadTimeout ==
    /\ page.load = "timeout"
    /\ ProfRaise("load", "_wait_for_profile_load", "AssertionError")

\* scraper.py 105, 139-151
ExtractBasicInfo ==
    /\ p_pc = "basic_info"
    /\ ProfStep("basic_info", "_extract_basic_info",
                Returned(BasicInfoKeys, "parsed"), "bank")

\* scraper.py 107, 160-206
ExtractBank ==
    /\ page.bank = "ok"
    /\ ProfStep("bank", "_extract_bank_experience",
                Returned(BankKeys, "parsed"), "prebank")

\* scraper.py 107, 174: strptime raises on a start date
ExtractBankRaises ==
    /\ page.bank = "bad_date"
    /\ ProfRaise("bank", "_extract_bank_experience", "ValueError")

\* scraper.py 108, 208-241
ExtractPreBank ==
    /\ PreBankOutcome(page.prebank) = "returns"
    /\ ProfStep("prebank", "_extract_pre_bank_experience",
                Returned({"pre_bank_experience"}, SectionValue(page.prebank)),
                "education")

\* scraper.py 108, 218, 137: the wait for "See Less" times out
ExtractPreBankRaises ==
    /\ PreBankOutcome(page.prebank) = "raises"
    /\ ProfRaise("prebank", "_extract_pre_bank_experience", "AssertionError")

\* scraper.py 109, 243-275
ExtractEducation ==
    /\ EducationOutcome(page.education) = "returns"
    /\ ProfStep("education", "_extract_formal_education",
                Returned({"formal_education"}, SectionValue(page.education)),
                "documents")

\* scraper.py 109, 251-256, 137: a wait of the section times out
ExtractEducationRaises ==
    /\ EducationOutcome(page.education) = "raises"
    /\ ProfRaise("education", "_extract_formal_education", "AssertionError")

\* scraper.py 110, 277-323; without a tab the two lists are empty
ExtractDocuments ==
    /\ p_pc = "documents"
    /\ IF DocumentsOutcome(page.documents) = "returns"
       THEN ProfStep("documents", "_extract_documents_and_reports",
                     Returned(DocumentKeys,
                              IF page.documents = "loaded" THEN "parsed"
                              ELSE "empty"),
                     "expertise")
       ELSE ProfRaise("documents", "_extract_documents_and_reports",
                      "TimeoutError")

\* scraper.py 111, 325-330, 382-414: no wait is made
ExtractExpertise ==
    /\ p_pc = "expertise"
    /\ ProfStep("expertise", "_extract_expertise_and_skills",
                Returned(ExpertiseKeys, "parsed"), "awards")

\* scraper.py 112, 352-366: no wait is made
ExtractAwards ==
    /\ p_pc = "awards"
    /\ ProfStep("awards", "_extract_awards", Returned(AwardKeys, "parsed"),
                "image")

\* scraper.py 114, 332-342
DownloadImage ==
    /\ page.image \in {"none", "saved"}
    /\ ProfStep("image", "_download_profile_image", <<>>, "projects")

\* scraper.py 114, 336-339: mkdir or screenshot raises, outside any try
DownloadImageRaises ==
    /\ page.image = "fails"
    /\ ProfRaise("image", "_download_profile_image", "Error")

\* scraper.py 116-117: scrape_projects returns its sixteen keys
ScrapeProjects ==
    /\ p_pc = "projects"
    /\ ProfStep("projects", "scrape_projects", project_data, "construct")

\* scraper.py 120: the record is built and returned to main
Construct ==
    /\ p_pc = "construct"
    /\ ProfileDataAccepts(p_dict)
    /\ p_pc' = "returned"
    /\ UNCHANGED <<page, p_dict, p_calls, p_error, p_csv, p_json>>
    /\ UNCHANGED nonprof

\* main.py 52
ProfSaveCsv ==
    /\ p_pc = "returned"
    /\ p_csv' = Append(p_csv, p_dict)
    /\ p_pc' = "csv_saved"
    /\ UNCHANGED <<page, p_dict, p_calls, p_error, p_json>>
    /\ UNCHANGED nonprof

\* main.py 53
ProfSaveJson ==
    /\ p_pc = "csv_saved"
    /\ p_json' = Append(p_json, p_dict)
    /\ p_pc' = "saved"
    /\ UNCHANGED <<page, p_dict, p_calls, p_error, p_csv>>
    /\ UNCHANGED nonprof

ProfNext ==
    \/ WaitForProfileLoad
    \/ WaitForProfileLoadTimeout
    \/ ExtractBasicInfo
    \/ ExtractBank
    \/ ExtractBankRaises
    \/ ExtractPreBank
    \/ ExtractPreBankRaises
    \/ ExtractEducation
    \/ ExtractEducationRaises
    \/ ExtractDocuments
    \/ ExtractExpertise
    \/ ExtractAwards
    \/ DownloadImage
    \/ DownloadImageRaises
    \/ ScrapeProjects
    \/ Construct
    \/ ProfSaveCsv
    \/ ProfSaveJson

ProfSpecInit ==
    ProfInit /\ BatchIdle /\ SchemaIdle /\ CodeIdle /\ BankIdle /\ ProjIdle
        /\ MoreIdle

ProfSpec == ProfSpecInit /\ [][ProfNext]_vars

\* the page is in order but for a timeout in exactly one of its sections
OneSectionTimeout ==
    /\ page.load = "ok" /\ page.bank = "ok" /\ page.image # "fails"
    /\ Cardinality({sec \in {"prebank", "education", "documents"} :
                        page[sec] = "stuck"}) = 1

\* C3 (as claimed): when exactly one section extractor hits a timeout, the
\* timeout does not leave the extractor, the section's sub-record is empty,
\* every declared field of the record is populated and the record is
\* persisted.
C3_SectionTimeoutDegrades ==
    OneSectionTimeout =>
        /\ p_pc # "raised"
        /\ (p_pc = "education" /\ page.prebank = "stuck") =>
              p_dict["pre_bank_experience"] = "empty"
        /\ (p_pc = "documents" /\ page.education = "stuck") =>
              p_dict["formal_education"] = "empty"
        /\ (p_pc = "expertise" /\ page.documents = "stuck") =>
              \A k \in DocumentKeys : p_dict[k] = "empty"
        /\ p_pc = "saved" =>
              /\ p_csv = <<p_dict>>
              /\ p_json = <<p_dict>>
              /\ DOMAIN p_dict = Fields


(***************************************************************************)
(* ProjSpec: scrape_projects and _collect_project_type_data,               *)
(* scraper.py:422-545, on listings of up to MaxPages pages per category    *)
(* that show up to MaxItems items in all.                                  *)
(***************************************************************************)
\* most items the three listings show in all
MaxItems == 3
\* most pages of one category's listing
MaxPages == 2

\* the categories in the order scrape_projects collects them
Categories == <<"lending", "nonlending", "ifc">>

NA == <<"N", "/", "A">>

\* the items a listing may show; missing names the sub-elements the item
\* does not have
ItemRoad ==
    [title |-> <<" ", "R", "o", "a", "d", " ">>,
     href |-> <<"p", "/", "P", "7", "/", "x">>,
     status |-> <<"A", "c", "t", "i", "v", "e">>,
     year |-> <<"2", "0", "2", "0">>,
     missing |-> {}]
ItemFund ==
    [title |-> <<"F", "u", "n", "d">>,
     href |-> <<"p", "/", "7", "7", "7", "7", "7">>,
     status |-> <<>>,
     year |-> <<>>,
     missing |-> {"status", "year"}]
ItemUntitled ==
    [title |-> <<>>,
     href |-> <<>>,
     status |-> <<"A", "c", "t", "i", "v", "e">>,
     year |-> <<"2", "0", "2", "1">>,
     missing |-> {"title"}]
ItemUnlinked ==
    [title |-> <<"D", "a", "m">>,
     href |-> <<>>,
     status |-> <<"C", "l", "o", "s", "e", "d">>,
     year |-> <<"2", "0", "1", "9">>,
     missing |-> {"href"}]
Items == {ItemRoad, ItemFund, ItemUntitled, ItemUnlinked}

ProjectTypeData(a, b, c, d) ==
    [projects |-> a, project_codes |-> b, project_statuses |-> c,
     project_years |-> d]

\* the rows read before the failure returned instead of dropped
PartialProjectTypeData ==
    ProjectTypeData(projects, project_codes, project_statuses, project_years)

\* scraper.py 544: what a failed category gives
EmptyProjectTypeData == ProjectTypeData(<<>>, <<>>, <<>>, <<>>)

\* a loop that starts at the second item: range(1, count)
ItemsFromSecond(rows) == Tail(rows)

\* scraper.py 501-505: the items the loop visits, accordion.nth(i) for
\* every i in range(count)
ItemsOnPage(rows) == rows

\* scraper.py 506-508: inner_text of the title link waits for a link that is
\* not there and times out; get_attribute gives None for a link without
\* href, and None.split raises
Unparseable(item) == "title" \in item.missing \/ "href" \in item.missing

\* scraper.py 507, 529
RowTitle(item) == Strip(item.title)
\* scraper.py 508-522
RowCode(ptype, item) == ProjectCode(ptype, item.href)
\* scraper.py 524-525
RowStatus(item) == IF "status" \in item.missing THEN NA ELSE item.status
\* scraper.py 526-527
RowYear(item) == IF "year" \in item.missing THEN NA ELSE item.year

\* scraper.py 529: the titles the loop appends for a page
PageTitles(rows) == [i \in 1..Len(rows) |-> RowTitle(rows[i])]

\* codes appended only when one was found
PageCodesFound(ptype, rows) ==
    SelectSeq([i \in 1..Len(rows) |-> RowCode(ptype, rows[i])],
              LAMBDA c : c # <<>>)

\* scraper.py 530: the codes the loop appends for a page
PageCodes(ptype, rows) == [i \in 1..Len(rows) |-> RowCode(ptype, rows[i])]

\* scraper.py 531
PageStatuses(rows) == [i \in 1..Len(rows) |-> RowStatus(rows[i])]
\* scraper.py 532
PageYears(rows) == [i \in 1..Len(rows) |-> RowYear(rows[i])]

RECURSIVE Flatten(_)
\* the items of a sequence of pages, page after page
Flatten(pages) ==
    IF pages = <<>> THEN <<>> ELSE Head(pages) \o Flatten(Tail(pages))

\* the items the listings have shown so far
TotalShown ==
    Len(Flatten(shown[1])) + Len(Flatten(shown[2])) + Len(Flatten(shown[3]))

\* the pages a listing may show next: at least one item, within the bounds
NextPages == SeqsUpTo(Items, MaxItems - TotalShown) \ {<<>>}

DigitChars == <<"0", "1", "2", "3", "4", "5", "6", "7", "8", "9">>

RECURSIVE str(_)
\* scraper.py 499: the page counter formatted into the selector
str(n) ==
    IF n < 10
    THEN <<DigitChars[n + 1]>>
    ELSE str(n \div 10) \o <<DigitChars[(n % 10) + 1]>>

\* scraper.py 499: li.current:has-text('<n>') is visible when the text of
\* the indicator contains the digits of n
IndicatorShows(n) == Contains(str(n), str(ui_current))

ProjInit ==
    /\ j_pc = "view_all"
    /\ j_cat = 1
    /\ page_number = 1
    /\ projects = <<>>
    /\ project_codes = <<>>
    /\ project_statuses = <<>>
    /\ project_years = <<>>
    /\ collected = <<>>
    /\ project_out = <<>>
    /\ ui_current = 1
    /\ ui_rows = <<>>
    /\ ui_next = FALSE
    /\ shown = [c \in 1..3 |-> <<>>]
    /\ failed = {}

\* scraper.py 429-433: the next category, or the dictionary
Advance ==
    IF j_cat = Len(Categories)
    THEN j_pc' = "assemble" /\ j_cat' = j_cat
    ELSE j_pc' = "tab" /\ j_cat' = j_cat + 1

\* scraper.py 543-545: the exception is caught, the lists are dropped and
\* four empty lists are returned
CategoryFails ==
    /\ collected' = Append(collected, EmptyProjectTypeData)
    /\ failed' = failed \cup {j_cat}
    /\ projects' = <<>>
    /\ project_codes' = <<>>
    /\ project_statuses' = <<>>
    /\ project_years' = <<>>
    /\ Advance

\* scraper.py 424-427: "View All Projects" is absent, or clicked and loaded
OpenProjects ==
    /\ j_pc = "view_all"
    /\ j_pc' = "tab"
    /\ UNCHANGED <<j_cat, page_number, projects, project_codes,
                   project_statuses, project_years, collected, project_out,
                   ui_current, ui_rows, ui_next, shown, failed>>
    /\ UNCHANGED nonproj

EmptyProjects ==
    [lending_projects |-> <<>>, lending_project_codes |-> <<>>,
     lending_project_statuses |-> <<>>, lending_project_years |-> <<>>,
     non_lending_projects |-> <<>>, non_lending_project_codes |-> <<>>,
     non_lending_project_statuses |-> <<>>,
     non_lending_project_years |-> <<>>,
     ifc_projects |-> <<>>, ifc_project_codes |-> <<>>,
     ifc_project_statuses |-> <<>>, ifc_project_years |-> <<>>,
     all_projects |-> <<>>, all_project_codes |-> <<>>,
     all_project_statuses |-> <<>>, all_project_years |-> <<>>]

\* scraper.py 426-427, 453-472: the click or the wait raises and
\* scrape_projects returns sixteen empty lists
OpenProjectsFails ==
    /\ j_pc = "view_all"
    /\ project_out' = EmptyProjects
    /\ j_pc' = "done"
    /\ UNCHANGED <<j_cat, page_number, projects, project_codes,
                   project_statuses, project_years, collected, ui_current,
                   ui_rows, ui_next, shown, failed>>
    /\ UNCHANGED nonproj

\* the page numbers the indicator may show when a tab is activated: 1, or
\* the number of a later page the pagination was left at
FirstIndicators == {1, 2, 11}

\* scraper.py 476-496: the heading, the tab and the first group are seen,
\* the page size is set, and the listing shows a page, its first one unless
\* the pagination was left at another
ActivateTab ==
    /\ j_pc = "tab"
    /\ projects' = <<>>
    /\ project_codes' = <<>>
    /\ project_statuses' = <<>>
    /\ project_years' = <<>>
    /\ page_number' = 1
    /\ \E rows \in NextPages, more \in BOOLEAN :
        /\ more => (MaxPages > 1 /\ TotalShown + Len(rows) < MaxItems)
        /\ ui_rows' = rows
        /\ ui_next' = more
        /\ shown' = [shown EXCEPT ![j_cat] = <<rows>>]
    /\ ui_current' \in FirstIndicators
    /\ j_pc' = "page"
    /\ UNCHANGED <<j_cat, collected, project_out, failed>>
    /\ UNCHANGED nonproj

\* scraper.py 481-494: one of the four bounded waits fails (so it does for
\* a category without any item)
ActivateTabFails ==
    /\ j_pc = "tab"
    /\ CategoryFails
    /\ UNCHANGED <<page_number, project_out, ui_current, ui_rows, ui_next,
                   shown>>
    /\ UNCHANGED nonproj

\* scraper.py 499-532: the indicator shows the expected page and every item
\* of the page is read and appended to the four lists
ReadPage ==
    /\ j_pc = "page"
    /\ IndicatorShows(page_number)
    /\ \A i \in 1..Len(ui_rows) : ~Unparseable(ui_rows[i])
    /\ LET rows == ItemsOnPage(ui_rows)
       IN  /\ projects' = projects \o PageTitles(rows)
           /\ project_codes' =
                 project_codes \o PageCodes(Categories[j_cat], rows)
           /\ project_statuses' = project_statuses \o PageStatuses(rows)
           /\ project_years' = project_years \o PageYears(rows)
    /\ j_pc' = "next"
    /\ UNCHANGED <<j_cat, page_number, collected, project_out, ui_current,
                   ui_rows, ui_next, shown, failed>>
    /\ UNCHANGED nonproj

\* scraper.py 499-508: the indicator shows the expected page and an item of
\* the page cannot be read
ReadPageFails ==
    /\ j_pc = "page"
    /\ IndicatorShows(page_number)
    /\ \E i \in 1..Len(ui_rows) : Unparseable(ui_rows[i])
    /\ CategoryFails
    /\ UNCHANGED <<page_number, project_out, ui_current, ui_rows, ui_next,
                   shown>>
    /\ UNCHANGED nonproj

\* scraper.py 499: the indicator does not show the expected page in time
StalePage ==
    /\ j_pc = "page"
    /\ ~IndicatorShows(page_number)
    /\ CategoryFails
    /\ UNCHANGED <<page_number, project_out, ui_current, ui_rows, ui_next,
                   shown>>
    /\ UNCHANGED nonproj

\* the counter left as it is
SameCounter(n) == n

\* scraper.py 538: page_number += 1
NextCounter(n) == n + 1

\* scraper.py 535-538: the enabled next-page control is clicked and the
\* listing moves to its next page
NextPage ==
    /\ j_pc = "next"
    /\ ui_next
    /\ page_number' = NextCounter(page_number)
    /\ ui_current' = ui_current + 1
    /\ \E rows \in NextPages, more \in BOOLEAN :
        /\ more => (MaxPages > Len(shown[j_cat]) + 1
                    /\ TotalShown + Len(rows) < MaxItems)
        /\ ui_rows' = rows
        /\ ui_next' = more
        /\ shown' = [shown EXCEPT ![j_cat] = Append(@, rows)]
    /\ j_pc' = "page"
    /\ UNCHANGED <<j_cat, projects, project_codes, project_statuses,
                   project_years, collected, project_out, failed>>
    /\ UNCHANGED nonproj

\* scraper.py 535-538: the control is clicked and the listing is slow: it
\* still shows the page it showed
NextPageSlow ==
    /\ j_pc = "next"
    /\ ui_next
    /\ page_number' = NextCounter(page_number)
    /\ j_pc' = "page"
    /\ UNCHANGED <<j_cat, projects, project_codes, project_statuses,
                   project_years, collected, project_out, ui_current,
                   ui_rows, ui_next, shown, failed>>
    /\ UNCHANGED nonproj

\* scraper.py 537: the click on the control times out
NextPageFails ==
    /\ j_pc = "next"
    /\ ui_next
    /\ CategoryFails
    /\ UNCHANGED <<page_number, project_out, ui_current, ui_rows, ui_next,
                   shown>>
    /\ UNCHANGED nonproj

\* scraper.py 539-542: no enabled next-page control; the lists are returned
LastPage ==
    /\ j_pc = "next"
    /\ ~ui_next
    /\ collected' =
          Append(collected,
                 ProjectTypeData(projects, project_codes, project_statuses,
                                 project_years))
    /\ Advance
    /\ UNCHANGED <<page_number, projects, project_codes, project_statuses,
                   project_years, project_out, ui_current, ui_rows, ui_next,
                   shown, failed>>
    /\ UNCHANGED nonproj

\* scraper.py 75-77: ProjectData.all_projects
all_projects(lending, non_lending, ifc) ==
    lending.projects \o non_lending.projects \o ifc.projects

\* the categories joined with IFC first
all_project_codes_ifc_first(lending, non_lending, ifc) ==
    ifc.project_codes \o lending.project_codes \o non_lending.project_codes

\* scraper.py 79-81: ProjectData.all_project_codes
all_project_codes(lending, non_lending, ifc) ==
    lending.project_codes \o non_lending.project_codes \o ifc.project_codes

\* scraper.py 83-85: ProjectData.all_project_statuses
all_project_statuses(lending, non_lending, ifc) ==
    lending.project_statuses \o non_lending.project_statuses
        \o ifc.project_statuses

\* scraper.py 87-89: ProjectData.all_project_years
all_project_years(lending, non_lending, ifc) ==
    lending.project_years \o non_lending.project_years \o ifc.project_years

\* scraper.py 69-89, 429-452: ProjectData and the dictionary returned
ProjectsDict(lending, non_lending, ifc) ==
    [lending_projects |-> lending.projects,
     lending_project_codes |-> lending.project_codes,
     lending_project_statuses |-> lending.project_statuses,
     lending_project_years |-> lending.project_years,
     non_lending_projects |-> non_lending.projects,
     non_lending_project_codes |-> non_lending.project_codes,
     non_lending_project_statuses |-> non_lending.project_statuses,
     non_lending_project_years |-> non_lending.project_years,
     ifc_projects |-> ifc.projects,
     ifc_project_codes |-> ifc.project_codes,
     ifc_project_statuses |-> ifc.project_statuses,
     ifc_project_years |-> ifc.project_years,
     all_projects |-> all_projects(lending, non_lending, ifc),
     all_project_codes |-> all_project_codes(lending, non_lending, ifc),
     all_project_statuses |->
        all_project_statuses(lending, non_lending, ifc),
     all_project_years |-> all_project_years(lending, non_lending, ifc)]

\* scraper.py 429-452
Assemble ==
    /\ j_pc = "assemble"
    /\ project_out' = ProjectsDict(collected[1], collected[2], collected[3])
    /\ j_pc' = "done"
    /\ UNCHANGED <<j_cat, page_number, projects, project_codes,
                   project_statuses, project_years, collected, ui_current,
                   ui_rows, ui_next, shown, failed>>
    /\ UNCHANGED nonproj

ProjNext ==
    \/ OpenProjects
    \/ OpenProjectsFails
    \/ ActivateTab
    \/ ActivateTabFails
    \/ ReadPage
    \/ ReadPageFails
    \/ StalePage
    \/ NextPage
    \/ NextPageSlow
    \/ NextPageFails
    \/ LastPage
    \/ Assemble

ProjSpecInit ==
    ProjInit /\ BatchIdle /\ SchemaIdle /\ CodeIdle /\ BankIdle /\ ProfIdle
        /\ MoreIdle

ProjSpec == ProjSpecInit /\ [][ProjNext]_vars

\* every wait of the scraper has a timeout (scraper.py 427, 481-499, and
\* Playwright's default for click and inner_text), so a step that is
\* possible is taken
ProjLiveSpec == ProjSpecInit /\ [][ProjNext]_vars /\ WF_vars(ProjNext)

\* the four arrays of a view of the result: lending, non-lending, IFC, all
View(v) ==
    CASE v = 1 ->
           ProjectTypeData(project_out.lending_projects,
                           project_out.lending_project_codes,
                           project_out.lending_project_statuses,
                           project_out.lending_project_years)
      [] v = 2 ->
           ProjectTypeData(project_out.non_lending_projects,
                           project_out.non_lending_project_codes,
                           project_out.non_lending_project_statuses,
                           project_out.non_lending_project_years)
      [] v = 3 ->
           ProjectTypeData(project_out.ifc_projects,
                           project_out.ifc_project_codes,
                           project_out.ifc_project_statuses,
                           project_out.ifc_project_years)
      [] OTHER ->
           ProjectTypeData(project_out.all_projects,
                           project_out.all_project_codes,
                           project_out.all_project_statuses,
                           project_out.all_project_years)

\* the items category c showed, each with the category's name
Listed(c) == {<<Categories[c], item>> : item \in Range(Flatten(shown[c]))}

\* the items a view is about
ViewItems(v) ==
    IF v \in 1..3 THEN Listed(v) ELSE Listed(1) \cup Listed(2) \cup Listed(3)

\* title t, code c, status s and year y are those of one listing item
Describes(src, t, c, s, y) ==
    /\ t = Strip(src[2].title)
    /\ c = ProjectCode(src[1], src[2].href)
    /\ s = (IF "status" \in src[2].missing THEN NA ELSE src[2].status)
    /\ y = (IF "year" \in src[2].missing THEN NA ELSE src[2].year)

\* C5: in every result of scrape_projects, for lending, non-lending, IFC and
\* the aggregate view, the four arrays have the same length and index i of
\* the four holds the title, code, status and year of one and the same item
\* the listing showed, whatever the number of pages and whichever steps
\* failed.
C5_ParallelArrays ==
    j_pc = "done" =>
        \A v \in 1..4 :
            LET a == View(v)
            IN  /\ Len(a.project_codes) = Len(a.projects)
                /\ Len(a.project_statuses) = Len(a.projects)
                /\ Len(a.project_years) = Len(a.projects)
                /\ \A i \in 1..Len(a.projects) :
                      \E src \in ViewItems(v) :
                          Describes(src, a.projects[i], a.project_codes[i],
                                    a.project_statuses[i],
                                    a.project_years[i])

\* a result where one category failed, another was read over two pages, and
\* an item without a code and without a status is among the rows returned
C5_Witness ==
    /\ j_pc = "done"
    /\ failed # {}
    /\ \E c \in 1..3 : c \notin failed /\ Len(shown[c]) = 2
    /\ Len(project_out.all_projects) >= 2
    /\ \E i \in 1..Len(project_out.all_projects) :
          /\ project_out.all_project_codes[i] = <<>>
          /\ project_out.all_project_statuses[i] = NA

Readable(rows) == \A i \in 1..Len(rows) : ~Unparseable(rows[i])

\* C12: an exception raised anywhere in one category's extraction is caught
\* in the category: its result is four empty arrays, whatever rows were read
\* before, the extraction goes on with the next category, and scrape_projects
\* returns the other categories' rows as they were collected.
C12_CategoryIsolation ==
    /\ \A c \in failed :
          /\ c <= Len(collected)
          /\ collected[c].projects = <<>>
          /\ collected[c].project_codes = <<>>
          /\ collected[c].project_statuses = <<>>
          /\ collected[c].project_years = <<>>
          /\ (j_pc # "done") => (j_cat > c \/ j_pc = "assemble")
    /\ (j_pc = "done" /\ failed # {}) =>
          /\ Len(collected) = 3
          /\ \A c \in 1..3 :
                /\ View(c) = collected[c]
                /\ c \notin failed =>
                      Len(View(c).projects) = Len(Flatten(shown[c]))

\* the first category failed after the rows of its first page were read, and
\* the result holds rows of both other categories
C12_Witness ==
    /\ j_pc = "done"
    /\ failed = {1}
    /\ Len(shown[1]) = 1
    /\ Readable(shown[1][1])
    /\ project_out.lending_projects = <<>>
    /\ project_out.non_lending_projects # <<>>
    /\ project_out.ifc_projects # <<>>

\* C13: in every result, each aggregate array is the lending array followed
\* by the non-lending array followed by the IFC array of the same kind, and
\* its length is the sum of the three lengths.
C13_AggregateConcatenation ==
    j_pc = "done" =>
        /\ project_out.all_projects =
              project_out.lending_projects
                  \o project_out.non_lending_projects
                  \o project_out.ifc_projects
        /\ project_out.all_project_codes =
              project_out.lending_project_codes
                  \o project_out.non_lending_project_codes
                  \o project_out.ifc_project_codes
        /\ project_out.all_project_statuses =
              project_out.lending_project_statuses
                  \o project_out.non_lending_project_statuses
                  \o project_out.ifc_project_statuses
        /\ project_out.all_project_years =
              project_out.lending_project_years
                  \o project_out.non_lending_project_years
                  \o project_out.ifc_project_years
        /\ Len(project_out.all_projects) =
              Len(project_out.lending_projects)
                  + Len(project_out.non_lending_projects)
                  + Len(project_out.ifc_projects)

\* a result with rows in each of the three categories, the lending and the
\* IFC codes differing
C13_Witness ==
    /\ j_pc = "done"
    /\ project_out.lending_project_codes # <<>>
    /\ project_out.non_lending_project_codes # <<>>
    /\ project_out.ifc_project_codes # <<>>
    /\ project_out.lending_project_codes # project_out.ifc_project_codes
    /\ Len(project_out.all_project_codes) = 3


(***************************************************************************)
(* RecordSpec: a ProfileData object, scraper.py:10-58: its construction    *)
(* from keyword arguments, assignments to its attributes and update().     *)
(***************************************************************************)
\* most keys of a dictionary given to update
MaxUpdateKeys == 2

\* the attribute names assigned to: declared fields and the undeclared
AssignKeys == {"name", "upi", "url"} \cup UndeclaredKeys

\* the dictionaries given to update, as their keys in insertion order
UpdateDicts ==
    {d \in SeqsUpTo(AssignKeys, MaxUpdateKeys) :
        \A i, j \in 1..Len(d) : i # j => d[i] # d[j]}

\* scraper.py 51-54: __setattr__ raises AttributeError for a name that is
\* not annotated and assigns otherwise
ProfileData_setattr(self, attr, value) ==
    IF attr \notin Fields
    THEN [fields |-> self, error |-> "AttributeError"]
    ELSE [fields |-> [self EXCEPT ![attr] = value], error |-> "none"]

RECURSIVE ProfileData_update(_, _)
\* scraper.py 56-58: update assigns the items of the dictionary one after
\* the other, in its order, until one raises
ProfileData_update(self, data) ==
    IF data = <<>> THEN [fields |-> self, error |-> "none"]
    ELSE LET r == ProfileData_setattr(self, Head(data), "new")
         IN  IF r.error # "none" THEN r
             ELSE ProfileData_update(r.fields, Tail(data))

RecordInit ==
    /\ record = <<>>
    /\ r_pc = "new"
    /\ r_error = "none"
    /\ r_before = <<>>
    /\ r_op = [op |-> "none", keys |-> <<>>]

\* scraper.py 10-49: ProfileData(**kwargs)
NewRecord ==
    /\ r_pc = "new"
    /\ \E extra \in SUBSET UndeclaredKeys :
        LET kwargs == [k \in Fields \cup extra |-> "old"]
        IN  /\ r_op' = [op |-> "init", keys |-> extra]
            /\ IF ProfileDataAccepts(kwargs)
               THEN record' = kwargs /\ r_error' = "none" /\ r_pc' = "ready"
               ELSE record' = record /\ r_error' = "TypeError"
                    /\ r_pc' = "raised"
    /\ UNCHANGED r_before
    /\ UNCHANGED nonrecord

\* the operation on the object is over: as it returned, or as it raised
Outcome(result) ==
    /\ record' = result.fields
    /\ r_error' = result.error
    /\ r_before' = record
    /\ r_pc' = IF result.error = "none" THEN "ready" ELSE "raised"

\* scraper.py 51-54: record.attr = value
Assign ==
    /\ r_pc = "ready"
    /\ \E attr \in AssignKeys :
        /\ Outcome(ProfileData_setattr(record, attr, "new"))
        /\ r_op' = [op |-> "setattr", keys |-> <<attr>>]
    /\ UNCHANGED nonrecord

\* scraper.py 56-58: record.update(data)
UpdateRecord ==
    /\ r_pc = "ready"
    /\ \E data \in UpdateDicts :
        /\ Outcome(ProfileData_update(record, data))
        /\ r_op' = [op |-> "update", keys |-> data]
    /\ UNCHANGED nonrecord

\* the caller catches the AttributeError and goes on with the object
Caught ==
    /\ r_pc = "raised"
    /\ r_error = "AttributeError"
    /\ r_pc' = "ready"
    /\ UNCHANGED <<record, r_error, r_before, r_op>>
    /\ UNCHANGED nonrecord

RecordNext ==
    \/ NewRecord
    \/ Assign
    \/ UpdateRecord
    \/ Caught

RecordSpecInit ==
    RecordInit /\ BatchIdle /\ SchemaIdle /\ CodeIdle /\ BankIdle /\ ProfIdle
        /\ ProjIdle /\ DocIdle /\ ItemIdle /\ LookupIdle

RecordSpec == RecordSpecInit /\ [][RecordNext]_vars

\* C14 (as claimed): an assignment or an update that names an undeclared
\* field raises and leaves the fields of the record as they were, and a
\* construction with an undeclared key raises.
C14_ClosedSchema ==
    /\ (r_op.op \in {"setattr", "update"}
        /\ \E i \in 1..Len(r_op.keys) : r_op.keys[i] \notin Fields) =>
          /\ r_error = "AttributeError"
          /\ record = r_before
    /\ (r_op.op = "init" /\ r_op.keys # {}) =>
          /\ r_error = "TypeError"
          /\ record = <<>>

\* C16 (as claimed): the rows of a page are appended only when the indicator
\* shows the number of the expected page counter; when it shows another
\* number nothing is appended and the category fails.
C16_StalePageGuard ==
    /\ j_pc = "next" => ui_current = page_number
    /\ (j_pc = "page" /\ ui_current # page_number) => ~ENABLED ReadPage

MaxDocs == 2

\* the href attributes of a title link
HrefDoc42 == <<"d", "/", "4", "2">>
HrefDocSlash == <<"d", "/", "4", "2", "/">>
HrefBare == <<"4", "2">>
DocHrefs == {HrefDoc42, HrefDocSlash, HrefBare, <<>>}

DocDate == <<" ", "2", "0", "2", "0", " ">>
DocTitle == <<"N", "o", "t", "e", " ">>

\* an entry: whether it has a title link, whether the link has an href
\* attribute, and the attribute's value
DocEntries ==
    [title : {TRUE}, has_href : {TRUE}, href : DocHrefs]
    \cup [title : BOOLEAN, has_href : {FALSE}, href : {<<>>}]

\* the documents tab: whether it exists, whether its content and its
\* "See Less" appear in time, and its entries
DocPages ==
    [tab : BOOLEAN, load : {"ok", "timeout"},
     entries : SeqsUpTo(DocEntries, MaxDocs)]

\* the first segment instead of the last: split("/")[0]
FirstSegment(link) == Split(link, "/")[1]

\* scraper.py 308: title_link.split("/")[-1]
LastSegment(link) == Split(link, "/")[Len(Split(link, "/"))]

\* scraper.py 302-304: get_attribute gives None for a link without href, and
\* None is not "N/A", so line 308 calls split on None
DocRaises(entry) == entry.title /\ ~entry.has_href

\* scraper.py 297-318: the dictionary appended for an entry
Document(entry) ==
    [id |-> IF entry.title THEN LastSegment(entry.href) ELSE NA,
     date |-> Strip(DocDate),
     title |-> IF entry.title THEN Strip(DocTitle) ELSE NA,
     link |-> IF entry.title THEN entry.href ELSE NA,
     description |-> NA]

\* document_ids listing only the documents that have a link
DocumentsDictLinked(documents) ==
    [documents_and_reports |-> documents,
     document_ids |->
        LET linked == SelectSeq(documents, LAMBDA doc : doc.link # NA)
        IN  [i \in 1..Len(linked) |-> linked[i].id]]

\* scraper.py 320-323
DocumentsDict(documents) ==
    [documents_and_reports |-> documents,
     document_ids |-> [i \in 1..Len(documents) |-> documents[i].id]]

DocInit ==
    /\ d_page \in DocPages
    /\ d_pc = "extract"
    /\ d_result = <<>>
    /\ d_error = "none"

\* scraper.py 279-280, 320-323: no documents tab
DocumentsNoTab ==
    /\ d_pc = "extract"
    /\ ~d_page.tab
    /\ d_result' = DocumentsDict(<<>>)
    /\ d_pc' = "returned"
    /\ UNCHANGED <<d_page, d_error>>
    /\ UNCHANGED nondoc

\* scraper.py 281-290: the content or "See Less" does not appear in time
DocumentsTimeout ==
    /\ d_pc = "extract"
    /\ d_page.tab
    /\ d_page.load = "timeout"
    /\ d_result' = [documents_and_reports |-> <<>>, document_ids |-> <<>>]
    /\ d_pc' = "returned"
    /\ UNCHANGED <<d_page, d_error>>
    /\ UNCHANGED nondoc

\* scraper.py 292-323: every entry is read and the dictionary is returned
DocumentsRead ==
    /\ d_pc = "extract"
    /\ d_page.tab
    /\ d_page.load = "ok"
    /\ \A i \in 1..Len(d_page.entries) : ~DocRaises(d_page.entries[i])
    /\ d_result' =
          DocumentsDict([i \in 1..Len(d_page.entries) |->
                            Document(d_page.entries[i])])
    /\ d_pc' = "returned"
    /\ UNCHANGED <<d_page, d_error>>
    /\ UNCHANGED nondoc

\* scraper.py 296-308: an entry's link has no href; the AttributeError is
\* raised outside the try block and leaves the extractor
DocumentsRaises ==
    /\ d_pc = "extract"
    /\ d_page.tab
    /\ d_page.load = "ok"
    /\ \E i \in 1..Len(d_page.entries) : DocRaises(d_page.entries[i])
    /\ d_error' = "AttributeError"
    /\ d_pc' = "raised"
    /\ UNCHANGED <<d_page, d_result>>
    /\ UNCHANGED nondoc

DocNext ==
    \/ DocumentsNoTab
    \/ DocumentsTimeout
    \/ DocumentsRead
    \/ DocumentsRaises

DocSpecInit ==
    DocInit /\ BatchIdle /\ SchemaIdle /\ CodeIdle /\ BankIdle /\ ProfIdle
        /\ ProjIdle /\ RecordIdle /\ ItemIdle /\ LookupIdle

DocSpec == DocSpecInit /\ [][DocNext]_vars

\* C19 (as claimed): the id of every document is the trailing path segment
\* of its link and "N/A" when the entry has no link, it is never the empty
\* string, and an entry without a link does not make the extraction fail.
C19_DocumentIdSentinel ==
    /\ d_pc # "raised"
    /\ d_pc = "returned" =>
          \A i \in 1..Len(d_result.documents_and_reports) :
              LET doc == d_result.documents_and_reports[i]
                  entry == d_page.entries[i]
              IN  /\ doc.id # <<>>
                  /\ (~entry.title \/ ~entry.has_href) => doc.id = NA
                  /\ (entry.title /\ entry.has_href) =>
                        /\ IsSubstring(doc.id, entry.href)
                        /\ ~IsSubstring(<<"/">>, doc.id)

\* ------------------------------------------------------------------------
\* ItemSpec: the item loops of the pre-bank experience, formal education and
\* awards extractors (scraper.py 208-275 and 352-366)
\* ------------------------------------------------------------------------

\* the largest number of item nodes of a section
MaxNodes == 2

\* a sub-field of an item node: no element, an element without text, an
\* element with text
NoElement == [present |-> FALSE, text |-> <<>>]
Element(text) == [present |-> TRUE, text |-> text]

LeadValues == {NoElement, Element(<<>>), Element(<<"a">>), Element(<<"b">>)}
OtherValues == {NoElement, Element(<<>>), Element(<<"c">>)}

\* li.sf-details of app-pre-bank-experience
PreBankNodes ==
    [title : LeadValues, organization : OtherValues, date_range : OtherValues]

\* li.sf-details of app-formal-education
EducationNodes ==
    [degree : LeadValues, institution : OtherValues, year : OtherValues]

\* div.sf-awards ul li
AwardNodes ==
    [award_name : LeadValues, dept : OtherValues, date : OtherValues]

\* the sub-fields the loops read, by section
RequiredFields(section) ==
    CASE section = "pre_bank_experience" ->
            {"title", "organization", "date_range"}
      [] section = "formal_education" -> {"degree", "institution", "year"}
      [] section = "awards" -> {"award_name", "dept", "date"}

SectionPages ==
    [section : {"pre_bank_experience"}, tab : BOOLEAN,
     load : {"ok", "stuck"}, nodes : SeqsUpTo(PreBankNodes, MaxNodes)]
    \cup [section : {"formal_education"}, tab : BOOLEAN,
          load : {"ok", "stuck"}, nodes : SeqsUpTo(EducationNodes, MaxNodes)]
    \cup [section : {"awards"}, tab : {TRUE},
          load : {"ok"}, nodes : SeqsUpTo(AwardNodes, MaxNodes)]

\* _get_text_content: the text of the element, None without an element
get_text_content(value) ==
    IF value.present THEN [set |-> TRUE, v |-> value.text]
    ELSE [set |-> FALSE, v |-> <<>>]

\* the truth value of an Optional[str]
Truthy(optional) == optional.set /\ optional.v # <<>>

\* if title and organization and date_range (element handles)
PreBankKept(node) ==
    node.title.present /\ node.organization.present /\ node.date_range.present

\* if degree and institution and year (element handles)
EducationKept(node) ==
    node.degree.present /\ node.institution.present /\ node.year.present

\* if award_name and dept and date (texts)
AwardKept(node) ==
    /\ Truthy(get_text_content(node.award_name))
    /\ Truthy(get_text_content(node.dept))
    /\ Truthy(get_text_content(node.date))

PreBankItem(node) ==
    [title |-> node.title.text,
     organization |-> node.organization.text,
     date_range |-> node.date_range.text]

EducationItem(node) ==
    [degree |-> node.degree.text,
     institution |-> node.institution.text,
     year |-> node.year.text]

\* f"{award_name}|{dept}|{date}"
AwardLine(node) ==
    node.award_name.text \o <<"|">> \o node.dept.text \o <<"|">>
        \o node.date.text

RECURSIVE pre_bank_experiences(_)
\* the loop of _extract_pre_bank_experience
pre_bank_experiences(nodes) ==
    IF nodes = <<>> THEN <<>>
    ELSE (IF PreBankKept(Head(nodes)) THEN <<PreBankItem(Head(nodes))>>
          ELSE <<>>) \o pre_bank_experiences(Tail(nodes))

RECURSIVE formal_education(_)
\* the loop of _extract_formal_education
formal_education(nodes) ==
    IF nodes = <<>> THEN <<>>
    ELSE (IF EducationKept(Head(nodes)) THEN <<EducationItem(Head(nodes))>>
          ELSE <<>>) \o formal_education(Tail(nodes))

RECURSIVE awards(_)
\* the loop of _extract_awards
awards(nodes) ==
    IF nodes = <<>> THEN <<>>
    ELSE (IF AwardKept(Head(nodes)) THEN <<AwardLine(Head(nodes))>>
          ELSE <<>>) \o awards(Tail(nodes))

\* the value of an extractor: a list of items, or None, or the awards pair
ItemList(items) ==
    [none |-> FALSE, items |-> items, list_of_awards |-> <<>>,
     total_number_of_awards |-> 0]
NoItemList ==
    [none |-> TRUE, items |-> <<>>, list_of_awards |-> <<>>,
     total_number_of_awards |-> 0]
AwardsDict(lines) ==
    [none |-> FALSE, items |-> <<>>,
     list_of_awards |-> Join(<<",", " ">>, lines),
     total_number_of_awards |-> Len(lines)]

\* the dict without keys
EmptyDict == [k \in {} |-> <<>>]

ItemInit ==
    /\ i_page \in SectionPages
    /\ i_pc = "start"
    /\ i_result = <<>>
    /\ i_error = "none"
    /\ i_calls = <<>>

\* pre_bank_tab.click() and _click_see_all_and_wait_for_content
PreBankCalls == <<"click", "see_all">>

\* education_tab.click(), wait_for_load_state("networkidle") and
\* _click_see_all_and_wait_for_content
EducationCalls == <<"click", "wait_for_load_state", "see_all">>

\* _extract_pre_bank_experience without its tab: [{}]
PreBankNoTab ==
    /\ i_pc = "start"
    /\ i_page.section = "pre_bank_experience"
    /\ ~i_page.tab
    /\ i_result' = ItemList(<<EmptyDict>>)
    /\ i_pc' = "returned"
    /\ UNCHANGED <<i_page, i_error>>
    /\ i_calls' = i_calls
    /\ UNCHANGED nonitem

\* "See All" never turns into "See Less": expect raises
PreBankStuck ==
    /\ i_pc = "start"
    /\ i_page.section = "pre_bank_experience"
    /\ i_page.tab
    /\ i_page.load = "stuck"
    /\ i_error' = "AssertionError"
    /\ i_pc' = "raised"
    /\ UNCHANGED <<i_page, i_result>>
    /\ i_calls' = PreBankCalls
    /\ UNCHANGED nonitem

PreBankRead ==
    /\ i_pc = "start"
    /\ i_page.section = "pre_bank_experience"
    /\ i_page.tab
    /\ i_page.load = "ok"
    /\ i_result' = ItemList(pre_bank_experiences(i_page.nodes))
    /\ i_pc' = "returned"
    /\ UNCHANGED <<i_page, i_error>>
    /\ i_calls' = PreBankCalls
    /\ UNCHANGED nonitem

\* _extract_formal_education without its tab: None
EducationNoTab ==
    /\ i_pc = "start"
    /\ i_page.section = "formal_education"
    /\ ~i_page.tab
    /\ i_result' = NoItemList
    /\ i_pc' = "returned"
    /\ UNCHANGED <<i_page, i_error>>
    /\ i_calls' = i_calls
    /\ UNCHANGED nonitem

EducationStuck ==
    /\ i_pc = "start"
    /\ i_page.section = "formal_education"
    /\ i_page.tab
    /\ i_page.load = "stuck"
    /\ i_error' = "AssertionError"
    /\ i_pc' = "raised"
    /\ UNCHANGED <<i_page, i_result>>
    /\ i_calls' = EducationCalls
    /\ UNCHANGED nonitem

EducationRead ==
    /\ i_pc = "start"
    /\ i_page.section = "formal_education"
    /\ i_page.tab
    /\ i_page.load = "ok"
    /\ i_result' = ItemList(formal_education(i_page.nodes))
    /\ i_pc' = "returned"
    /\ UNCHANGED <<i_page, i_error>>
    /\ i_calls' = EducationCalls
    /\ UNCHANGED nonitem

AwardsRead ==
    /\ i_pc = "start"
    /\ i_page.section = "awards"
    /\ i_result' = AwardsDict(awards(i_page.nodes))
    /\ i_pc' = "returned"
    /\ UNCHANGED <<i_page, i_error>>
    /\ i_calls' = i_calls
    /\ UNCHANGED nonitem

ItemNext ==
    \/ PreBankNoTab
    \/ PreBankStuck
    \/ PreBankRead
    \/ EducationNoTab
    \/ EducationStuck
    \/ EducationRead
    \/ AwardsRead

ItemSpecInit ==
    ItemInit /\ BatchIdle /\ SchemaIdle /\ CodeIdle /\ BankIdle /\ ProfIdle
        /\ ProjIdle /\ RecordIdle /\ DocIdle /\ LookupIdle

ItemSpec == ItemSpecInit /\ [][ItemNext]_vars

\* the item nodes of the page with an element for every required sub-field
\* (awards: with a text in every one), in page order
Complete(nodes) ==
    SelectSeq(nodes,
              LAMBDA node : \A f \in DOMAIN node :
                  /\ node[f].present
                  /\ i_page.section = "awards" => node[f].text # <<>>)

\* the texts of a node joined as an award
Line(node) ==
    node.award_name.text \o <<"|">> \o node.dept.text \o <<"|">>
        \o node.date.text

\* the listed sections: what the loops return on a page that has the section
ItemsOfCompleteNodes ==
    (i_pc = "returned" /\ i_page.tab) =>
        LET kept == Complete(i_page.nodes)
        IN  IF i_page.section = "awards"
            THEN /\ i_result.total_number_of_awards = Len(kept)
                 /\ i_result.list_of_awards
                        = Join(<<",", " ">>,
                               [i \in 1..Len(kept) |-> Line(kept[i])])
            ELSE /\ ~i_result.none
                 /\ Len(i_result.items) = Len(kept)
                 /\ \A i \in 1..Len(kept) :
                       /\ DOMAIN i_result.items[i] = DOMAIN kept[i]
                       /\ \A f \in DOMAIN kept[i] :
                             i_result.items[i][f] = kept[i][f].text

\* C20 (as claimed): every item of a section's result carries all required
\* sub-fields of its section, the items are those of the nodes that have every
\* required sub-field, and they come in the order of the page.
C20_NoPartialItems ==
    /\ ItemsOfCompleteNodes
    /\ (i_pc = "returned" /\ i_page.section # "awards") =>
          \A i \in 1..Len(i_result.items) :
              DOMAIN i_result.items[i] = RequiredFields(i_page.section)

\* C21 (as claimed): an extractor whose tab is not on the page makes no click
\* and no wait, does not fail, and returns a value without items: an empty
\* list or None.
C21_SectionAbsent ==
    (i_pc # "start" /\ ~i_page.tab) =>
        /\ i_pc = "returned"
        /\ i_calls = <<>>
        /\ i_result.none \/ i_result.items = <<>>

\* the extractors scrape_profile has called so far
Called(extractor) == \E i \in 1..Len(p_calls) : p_calls[i] = extractor

\* C22 (as claimed): when the capture of the profile image fails,
\* scrape_profile is not aborted: the project listings are extracted after
\* it and the record is returned and persisted in both sinks.
C22_BestEffortImage ==
    (page.image = "fails" /\ Called("_download_profile_image")) =>
        /\ p_pc # "raised"
        /\ p_pc \in {"construct", "returned", "csv_saved", "saved"} =>
              Called("scrape_projects")
        /\ p_pc = "saved" => (p_csv = <<p_dict>> /\ p_json = <<p_dict>>)

\* the order of the extractors
ExtractorOrder ==
    <<"_extract_basic_info", "_extract_bank_experience",
      "_extract_pre_bank_experience", "_extract_formal_education",
      "_extract_documents_and_reports", "_extract_expertise_and_skills",
      "_extract_awards", "_download_profile_image", "scrape_projects">>

\* the extractors called after the wait for the page, in call order
ExtractorCalls == IF p_calls = <<>> THEN <<>> ELSE Tail(p_calls)

\* C23: the extractors of one scrape_profile run are called in the fixed
\* order, each at most once; when the image capture is called basic info has
\* returned the upi; nothing is called after the project listings.
C23_ExtractorOrder ==
    /\ Len(ExtractorCalls) <= Len(ExtractorOrder)
    /\ ExtractorCalls = SubSeq(ExtractorOrder, 1, Len(ExtractorCalls))
    /\ Called("_download_profile_image") =>
          /\ "upi" \in DOMAIN p_dict
          /\ p_dict["upi"] = "parsed"
    /\ Called("scrape_projects") =>
          p_calls[Len(p_calls)] = "scrape_projects"

\* a run of scrape_profile that called every extractor and was persisted
C23_Witness ==
    /\ p_pc = "saved"
    /\ ExtractorCalls = ExtractorOrder

(***************************************************************************)
(* LookupSpec: lookup_person_from_csv and process_person,                  *)
(* linkedin_scraper.py:42-141, over an input file of up to MaxLookupRows   *)
(* names of the form "Last, First" and a results file of an earlier run.   *)
(***************************************************************************)
\* the most rows of the input file
MaxLookupRows == 2

\* full names: one or two tokens on either side of the comma
NameLA == <<"L", ",", " ", "A">>
NameLAB == <<"L", ",", " ", "A", " ", "B">>
NameLMAB == <<"L", " ", "M", ",", "A", " ", "B">>
FullNames == {NameLA, NameLAB, NameLMAB}

\* what api.linkedin.person.resolve answers: None, or a dict whose url is
\* None (with no similarity score), empty, or the address of a profile
ProfileUrl == <<"u">>
LookupNone == [result |-> FALSE, has_url |-> FALSE, url |-> <<>>]
LookupNoMatch == [result |-> TRUE, has_url |-> FALSE, url |-> <<>>]
LookupEmptyUrl == [result |-> TRUE, has_url |-> TRUE, url |-> <<>>]
LookupUrl == [result |-> TRUE, has_url |-> TRUE, url |-> ProfileUrl]
LookupResults == {LookupNone, LookupNoMatch, LookupEmptyUrl, LookupUrl}

\* the LinkedInProfile dataclass, its two fields that the loop reads; None
NoProfile == [none |-> TRUE, full_name |-> <<>>, linkedin_url |-> <<>>]
LinkedInProfile(full_name, linkedin_url) ==
    [none |-> FALSE, full_name |-> full_name, linkedin_url |-> linkedin_url]

\* a row of linkedin_results.csv; csv writes and reads a field unchanged
\* (utf-8 and newline='' on both sides)
ResultRow(p) == [full_name |-> p.full_name, linkedin_url |-> p.linkedin_url]

\* the results file an earlier run leaves: a row per name, found or blank
ExistingFiles ==
    {<<>>}
    \cup {<<[full_name |-> n, linkedin_url |-> u]>> :
              n \in FullNames, u \in {<<>>, ProfileUrl}}

\* load_existing_results
load_existing_results(file) ==
    [i \in 1..Len(file) |->
        LinkedInProfile(file[i].full_name, file[i].linkedin_url)]

\* save_to_csv: the file is rewritten with one row per profile
save_to_csv(profiles) == [i \in 1..Len(profiles) |-> ResultRow(profiles[i])]

RECURSIVE TakeToken(_)
\* the characters of s before its first whitespace
TakeToken(s) ==
    IF s = <<>> \/ Head(s) \in Whitespace THEN <<>>
    ELSE <<Head(s)>> \o TakeToken(Tail(s))

\* s.split()[0]
FirstToken(s) == TakeToken(LStrip(s))

\* last_name, first_name = full_name.split(','), both stripped
last_name(full_name) == Strip(Split(full_name, ",")[1])
first_name(full_name) == Strip(Split(full_name, ",")[2])

\* list(set([...])): the distinct (first, last) pairs; the loop walks them
\* in the order of the set, which is not fixed
NameVariations(full_name) ==
    LET first == first_name(full_name)
        last == last_name(full_name)
    IN  {<<first, last>>, <<FirstToken(first), last>>,
         <<first, FirstToken(last)>>, <<FirstToken(first), FirstToken(last)>>}

\* process_person
process_person(lookup_results, full_name) ==
    IF ~lookup_results.result \/ ~lookup_results.has_url THEN NoProfile
    ELSE LinkedInProfile(full_name, lookup_results.url)

\* a profile counts as found whenever process_person returned one
FoundAny(p) == ~p.none

\* profile and profile.linkedin_url
Found(p) == ~p.none /\ p.linkedin_url # <<>>

LookupInit ==
    /\ csv_names \in SeqsUpTo(FullNames, MaxLookupRows)
    /\ output_csv \in ExistingFiles
    /\ before = {output_csv[i].full_name : i \in 1..Len(output_csv)}
    /\ results = <<>>
    /\ results_dict = {}
    /\ row = 1
    /\ name_variations = {}
    /\ profile = NoProfile
    /\ lookups = <<>>
    /\ l_pc = "start"

\* linkedin_scraper.py 53-55
LoadResults ==
    /\ l_pc = "start"
    /\ results' = load_existing_results(output_csv)
    /\ results_dict' = {output_csv[i].full_name : i \in 1..Len(output_csv)}
    /\ l_pc' = "row"
    /\ UNCHANGED <<csv_names, output_csv, before, row, name_variations,
                   profile, lookups>>
    /\ UNCHANGED nonlookup

\* linkedin_scraper.py 65-67
SkipProcessed ==
    /\ l_pc = "row"
    /\ row <= Len(csv_names)
    /\ csv_names[row] \in results_dict
    /\ row' = row + 1
    /\ UNCHANGED <<csv_names, output_csv, before, results, results_dict,
                   name_variations, profile, lookups, l_pc>>
    /\ UNCHANGED nonlookup

\* linkedin_scraper.py 69-76
BuildVariations ==
    /\ l_pc = "row"
    /\ row <= Len(csv_names)
    /\ csv_names[row] \notin results_dict
    /\ name_variations' = NameVariations(csv_names[row])
    /\ profile' = NoProfile
    /\ l_pc' = "loop"
    /\ UNCHANGED <<csv_names, output_csv, before, results, results_dict,
                   row, lookups>>
    /\ UNCHANGED nonlookup

\* linkedin_scraper.py 77-83: one pass of the inner loop
TryVariation ==
    /\ l_pc = "loop"
    /\ \E variation \in name_variations, lookup_results \in LookupResults :
          LET full_name == csv_names[row]
              p == process_person(lookup_results, full_name)
          IN  /\ profile' = p
              /\ lookups' = Append(lookups,
                                   [full_name |-> full_name,
                                    variation |-> variation,
                                    url |-> lookup_results.url])
              /\ name_variations' = name_variations \ {variation}
              /\ IF Found(p)
                 THEN /\ results' = Append(results, p)
                      /\ results_dict' = results_dict \cup {full_name}
                      /\ l_pc' = "after"
                 ELSE /\ UNCHANGED <<results, results_dict>>
                      /\ l_pc' = IF name_variations' = {} THEN "after"
                                 ELSE "loop"
    /\ UNCHANGED <<csv_names, output_csv, before, row>>
    /\ UNCHANGED nonlookup

\* linkedin_scraper.py 85-91
SaveResults ==
    /\ l_pc = "after"
    /\ LET full_name == csv_names[row]
           blank == LinkedInProfile(full_name, <<>>)
       IN  IF ~Found(profile)
           THEN /\ profile' = blank
                /\ results' = Append(results, blank)
                /\ results_dict' = results_dict \cup {full_name}
           ELSE UNCHANGED <<profile, results, results_dict>>
    /\ output_csv' = save_to_csv(results')
    /\ row' = row + 1
    /\ l_pc' = "row"
    /\ UNCHANGED <<csv_names, before, name_variations, lookups>>
    /\ UNCHANGED nonlookup

\* linkedin_scraper.py 59: the reader has no more rows
LookupFinish ==
    /\ l_pc = "row"
    /\ row > Len(csv_names)
    /\ l_pc' = "done"
    /\ UNCHANGED <<csv_names, output_csv, before, results, results_dict,
                   row, name_variations, profile, lookups>>
    /\ UNCHANGED nonlookup

LookupNext ==
    \/ LoadResults
    \/ SkipProcessed
    \/ BuildVariations
    \/ TryVariation
    \/ SaveResults
    \/ LookupFinish

LookupSpecInit ==
    LookupInit /\ BatchIdle /\ SchemaIdle /\ CodeIdle /\ BankIdle /\ ProfIdle
        /\ ProjIdle /\ RecordIdle /\ DocIdle /\ ItemIdle

LookupSpec == LookupSpecInit /\ [][LookupNext]_vars

\* the first whitespace-separated token of a text
Token(text) ==
    LET t == Strip(text)
        cut == {i \in 1..Len(t) : t[i] \in Whitespace}
    IN  IF cut = {} THEN t
        ELSE SubSeq(t, 1, (CHOOSE i \in cut : \A j \in cut : i <= j) - 1)

\* the part of a full name before its comma, and the part after it
FamilyPart(n) ==
    Strip(SubSeq(n, 1, (CHOOSE i \in 1..Len(n) : n[i] = ",") - 1))
GivenPart(n) ==
    Strip(SubSeq(n, (CHOOSE i \in 1..Len(n) : n[i] = ",") + 1, Len(n)))

\* the four variations of a full name
FourVariations(n) ==
    {<<GivenPart(n), FamilyPart(n)>>,
     <<Token(GivenPart(n)), FamilyPart(n)>>,
     <<GivenPart(n), Token(FamilyPart(n))>>,
     <<Token(GivenPart(n)), Token(FamilyPart(n))>>}

\* the lookups made for a name, as indices of the log
LookupsOf(n) == {i \in 1..Len(lookups) : lookups[i].full_name = n}

\* a lookup that yielded a non-empty result URL
Yielded(i) == lookups[i].url # <<>>

\* the rows recorded for a name
RowsOf(file, n) == {i \in 1..Len(file) : file[i].full_name = n}

\* the rows of the input file the loop has finished with
RowsDone ==
    IF l_pc \in {"row", "done"} THEN 1..(row - 1)
    ELSE IF l_pc \in {"loop", "after"} THEN 1..(row - 1) ELSE {}

\* C24: for every name the lookups are over distinct variations out of its
\* four, none follows one that yielded a result URL, and all variations are
\* tried unless one yielded; a name of the existing results is never looked
\* up; once the loop is past a name exactly one row of the results, and of
\* the results file, has that name.
C24_BoundedLookupRetry ==
    /\ \A i \in 1..Len(lookups) :
          /\ lookups[i].variation \in FourVariations(lookups[i].full_name)
          /\ lookups[i].full_name \notin before
          /\ \A j \in 1..Len(lookups) :
                (i < j /\ lookups[i].full_name = lookups[j].full_name) =>
                    /\ lookups[i].variation # lookups[j].variation
                    /\ ~Yielded(i)
    /\ \A n \in FullNames : Cardinality(LookupsOf(n)) <= 4
    /\ \A k \in RowsDone :
          LET n == csv_names[k]
          IN  /\ Cardinality(RowsOf(results, n)) = 1
              /\ Cardinality(RowsOf(output_csv, n)) = 1
              /\ n \notin before =>
                    \/ \E i \in LookupsOf(n) :
                          /\ Yielded(i)
                          /\ \A r \in RowsOf(output_csv, n) :
                                output_csv[r].linkedin_url
                                    = lookups[i].url
                    \/ /\ {lookups[i].variation : i \in LookupsOf(n)}
                              = FourVariations(n)
                       /\ \A r \in RowsOf(output_csv, n) :
                             output_csv[r].linkedin_url = <<>>

\* a finished run in which a name took four lookups, the last of which
\* yielded, and another row of the input was skipped
C24_Witness ==
    /\ l_pc = "done"
    /\ Len(csv_names) = 2
    /\ \E n \in FullNames :
          /\ Cardinality(LookupsOf(n)) = 4
          /\ Yielded(Len(lookups))
          /\ Len(lookups) = 4

\* C25 (as claimed): no two records of the CSV sink have the same name, also
\* when the work list holds a name more than once.
C25_UniqueNameKey ==
    \A i, j \in 1..Len(profiles_csv) :
        i # j => profiles_csv[i].name # profiles_csv[j].name

\* the search has shown a top result whose text has n as a substring
Shows(search, n) ==
    /\ n \in DOMAIN search
    /\ search[n].found
    /\ IsSubstring(n, search[n].text)

\* one step of the loop of main that neither ends the run nor leaves it by
\* an exception or an interruption
LoopStep ==
    /\ pc \in {"loop", "save_json"}
    /\ pc' \in {"loop", "save_json"}

\* the loop is done with the current name: the name was skipped and no sink
\* was written, or it was logged as not found and has no record, or it has
\* its record in both record sinks and no line in the not-found log
OneOutcome ==
    LET n == staff_names[idx]
        rec == [name |-> n, page |-> ui_search[n].text]
    IN  \/ /\ pc = "loop"
           /\ n \in existing_profiles
           /\ UNCHANGED <<profiles_csv, profiles_json, not_found>>
        \/ /\ pc = "loop"
           /\ n \notin existing_profiles
           /\ ~Shows(ui_search', n)
           /\ not_found' = Append(not_found, n)
           /\ UNCHANGED <<profiles_csv, profiles_json>>
        \/ /\ pc = "save_json"
           /\ n \notin existing_profiles
           /\ Shows(ui_search, n)
           /\ profiles_json' = Append(profiles_json, rec)
           /\ profiles_csv # <<>>
           /\ profiles_csv[Len(profiles_csv)] = CsvRow(rec)
           /\ UNCHANGED <<profiles_csv, not_found>>

\* the loop stays with the current name: its record is appended to the CSV
\* sink and is still to be appended to the JSON sink
RecordHalfSaved ==
    LET n == staff_names[idx]
    IN  /\ pc = "loop"
        /\ pc' = "save_json"
        /\ n \notin existing_profiles
        /\ Shows(ui_search', n)
        /\ profiles_csv'
              = Append(profiles_csv,
                       CsvRow([name |-> n, page |-> ui_search'[n].text]))
        /\ UNCHANGED <<profiles_json, not_found>>

\* C26: in a run that no exception and no interruption ends, every name of
\* the work list that is not skipped gets one record in the CSV sink and one
\* in the JSON sink, or one line in the not-found log, never both and never
\* neither, and a skipped name causes no write.
C26_ExactlyOneOutcome ==
    [][LoopStep =>
          /\ idx' = idx + 1 => OneOutcome /\ pc' = "loop"
          /\ idx' = idx => RecordHalfSaved
          /\ idx' \in {idx, idx + 1}]_vars

\* a finished first run that saved one name and logged the other
C26_Witness ==
    /\ pc = "done"
    /\ run = 1
    /\ outcome = <<"saved", "not_found">>
    /\ Len(profiles_csv) = 1
    /\ Len(profiles_json) = 1
    /\ not_found = <<staff_names[2]>>


(***************************************************************************)
(* ListSpec: one call of _extract_documents_and_reports (as in DocSpec) or *)
(* one call of _extract_awards (as in ItemSpec), for the properties that   *)
(* speak of the results of both.                                           *)
(***************************************************************************)
ListSpecInit ==
    /\ BatchIdle /\ SchemaIdle /\ CodeIdle /\ BankIdle /\ ProfIdle
    /\ ProjIdle /\ RecordIdle /\ LookupIdle
    /\ \/ DocInit /\ ItemIdle
       \/ DocIdle /\ ItemInit /\ i_page.section = "awards"

ListNext ==
    \/ DocumentsNoTab
    \/ DocumentsTimeout
    \/ DocumentsRead
    \/ DocumentsRaises
    \/ AwardsRead

ListSpec == ListSpecInit /\ [][ListNext]_vars

\* the documents extractor has returned its dictionary
DocumentsReturned == d_pc = "returned"

\* the awards extractor has returned its dictionary
AwardsReturned == i_pc = "returned" /\ i_page.section = "awards"

\* C27: in every dictionary the documents extractor returns, document_ids is
\* as long as documents_and_reports and its i-th element is the id of the
\* i-th document; in every dictionary the awards extractor returns,
\* total_number_of_awards is the number of the entries that list_of_awards
\* joins.
C27_ParallelResults ==
    /\ DocumentsReturned =>
          LET docs == d_result.documents_and_reports
              ids == d_result.document_ids
              read == d_page.tab /\ d_page.load = "ok"
          IN  /\ Len(ids) = Len(docs)
              /\ \A i \in 1..Len(docs) : ids[i] = docs[i].id
              /\ Len(docs) = IF read THEN Len(d_page.entries) ELSE 0
    /\ AwardsReturned =>
          LET kept == Complete(i_page.nodes)
              entries == [i \in 1..Len(kept) |-> Line(kept[i])]
          IN  /\ i_result.total_number_of_awards = Len(entries)
              /\ i_result.list_of_awards = Join(<<",", " ">>, entries)

\* the extractor has returned two documents, one with a link and one
\* without, and the ids "N/A" and that of the link
C27_Witness ==
    /\ DocumentsReturned
    /\ Len(d_result.document_ids) = 2
    /\ \E i, j \in 1..2 :
          /\ d_result.document_ids[i] = NA
          /\ d_result.document_ids[j] # NA
          /\ d_result.documents_and_reports[j].link # NA

====
